---------------------------- MODULE Spec2Model ----------------------------
(***************************************************************************)
(* Model of direct/data/mri_transforms.py: the transform stages of the MRI *)
(* preprocessing pipeline, Compose, and build_mri_transforms.              *)
(*                                                                         *)
(* A sample is a function from keys (strings) to values.  A tensor is a    *)
(* record [shape, data] holding the row-major flattening of its entries;   *)
(* complex tensors carry a trailing axis of size 2 as in the source.       *)
(* Numbers live on an integer grid: 1.0 is 1, square roots and quotients   *)
(* are rounded toward zero onto the grid.  An optional value is <<>> for   *)
(* None and <<v>> for v.                                                   *)
(***************************************************************************)
EXTENDS Integers, Sequences, FiniteSets, TLC

VARIABLES
    cfg,        \* arguments of build_mri_transforms (or a marker when unused)
    transforms, \* Compose.transforms: the stage list
    sample,     \* the caller's sample dict, mutated in place by the stages
    sample0,    \* the sample as the caller passed it in
    pc,         \* "new", "ready", "running", "returned", "raised"
    i,          \* number of stages of the current run that have returned
    calls,      \* the stage indices called so far in this run, in call order
    inputs,     \* the mapping handed to each called stage, in call order
    outputs,    \* the mapping each returned stage handed back, in call order
    err,        \* the exception the caller sees, or NoError
    ret,        \* <<mapping>> once Compose.__call__ has returned, else <<>>
    other       \* a second call in progress on the same Compose object, or NoRun

vars == <<cfg, transforms, sample, sample0, pc, i, calls, inputs, outputs, err, ret, other>>

-----------------------------------------------------------------------------
(* Bounds of the model.                                                    *)

MaxVal == 2          \* k-space entries are drawn from 0..MaxVal
MaxStages == 3       \* longest stage list drawn for a free Compose object
MaxExp == 2          \* percentiles are num/2^e with e <= MaxExp
MaxCoils == 2        \* most coils of a field handed to PadCoilDimension
MaxLen == 3          \* longest field of magnitudes handed to ComputeScalingFactor

-----------------------------------------------------------------------------
(* Optional values, errors.                                                *)

None == << >>
Some(v) == <<v>>
IsNone(o) == o = << >>
Val(o) == o[1]

NoError == [exc |-> "", key |-> ""]
Error(e, k) == [exc |-> e, key |-> k]

Ok(s) == [ok |-> TRUE, sample |-> s, err |-> NoError, requests |-> << >>]
Raise(s, e, k) == [ok |-> FALSE, sample |-> s, err |-> Error(e, k), requests |-> << >>]

\* a call of a stage on an external callable (the mask generator or the
\* cropper) with the arguments it was handed, and the result of a stage call
\* together with the calls it made, in order
Request(fn, shape, seed, return_acs) ==
    [fn |-> fn, shape |-> shape, seed |-> seed, return_acs |-> return_acs]
Asking(res, requests) == [res EXCEPT !.requests = requests]

Min(a, b) == IF a <= b THEN a ELSE b
Max(a, b) == IF a >= b THEN a ELSE b
Abs(a) == IF a >= 0 THEN a ELSE -a

Sqrt(n) == CHOOSE r \in 0..n : r * r <= n /\ (r + 1) * (r + 1) > n

\* Quotient of the grid: the float quotient rounded toward zero.
Quot(a, b) == IF (a >= 0) = (b > 0) THEN Abs(a) \div Abs(b) ELSE -(Abs(a) \div Abs(b))

RECURSIVE SumSeq(_)
SumSeq(s) == IF s = << >> THEN 0 ELSE Head(s) + SumSeq(Tail(s))

RECURSIVE Prod(_)
Prod(s) == IF s = << >> THEN 1 ELSE Head(s) * Prod(Tail(s))

-----------------------------------------------------------------------------
(* Tensors: row-major flattening, broadcasting.                            *)

Tensor(shape, data) == [shape |-> shape, data |-> data]
Scalar(v) == Tensor(<< >>, <<v>>)
Numel(t) == Len(t.data)

\* offset (0-based) of the index vector idx (0-based) in a tensor of this shape
RECURSIVE Flat(_, _)
Flat(shape, idx) ==
    IF shape = << >> THEN 0
    ELSE idx[1] * Prod(Tail(shape)) + Flat(Tail(shape), Tail(idx))

\* index vector of the 0-based offset n
RECURSIVE Unflat(_, _)
Unflat(shape, n) ==
    IF shape = << >> THEN << >>
    ELSE <<n \div Prod(Tail(shape))>> \o Unflat(Tail(shape), n % Prod(Tail(shape)))

At(t, idx) == t.data[Flat(t.shape, idx) + 1]

\* entry of t at idx under broadcasting: an axis of size 1 is read at 0
Clip(shape, idx) == [k \in 1..Len(shape) |-> IF shape[k] = 1 THEN 0 ELSE idx[k]]
LeftPad(shape, n) == [k \in 1..(n - Len(shape)) |-> 1] \o shape
Expand(t, n) == Tensor(LeftPad(t.shape, n), t.data)


BroadcastShape(a, b) ==
    LET n == Max(Len(a.shape), Len(b.shape))
        sa == LeftPad(a.shape, n)
        sb == LeftPad(b.shape, n)
    IN  [k \in 1..n |-> Max(sa[k], sb[k])]

\* entry at 0-based offset n of t broadcast to shape s
BAt(t, s, n) ==
    LET e == Expand(t, Len(s))
    IN  At(e, Clip(e.shape, Unflat(s, n)))

\* a * b (torch broadcasting)
Mul(a, b) ==
    LET s == BroadcastShape(a, b)
    IN  Tensor(s, [n \in 1..Prod(s) |-> BAt(a, s, n - 1) * BAt(b, s, n - 1)])

\* tensor.sum(dim=0)
SumCoil(t) ==
    LET rest == Tail(t.shape)
        r    == Prod(rest)
    IN  Tensor(rest, [n \in 1..r |-> SumSeq([c \in 1..t.shape[1] |-> t.data[(c - 1) * r + n]])])

\* tensor.unsqueeze(0).unsqueeze(-1)
Unsqueeze(t) == Tensor(<<1>> \o t.shape \o <<1>>, t.data)

RECURSIVE Pow2(_)
Pow2(n) == IF n = 0 THEN 1 ELSE 2 * Pow2(n - 1)

-----------------------------------------------------------------------------
(* Samples: dicts from keys to values.                                     *)

Has(s, k) == k \in DOMAIN s
Put(s, k, v) == [x \in (DOMAIN s) \cup {k} |-> IF x = k THEN v ELSE s[x]]
Del(s, k) == [x \in (DOMAIN s) \ {k} |-> s[x]]

-----------------------------------------------------------------------------
(* The collaborators of direct.data.transforms, as section 2 and section 6 *)
(* of the specification describe them.                                     *)

\* T.modulus: magnitude over the trailing complex axis
modulus(t) ==
    Tensor(SubSeq(t.shape, 1, Len(t.shape) - 1),
           [n \in 1..(Numel(t) \div 2) |->
               Sqrt(t.data[2 * n - 1] * t.data[2 * n - 1] + t.data[2 * n] * t.data[2 * n])])

\* T.root_sum_of_squares over the coil axis of a complex tensor
root_sum_of_squares(t) ==
    LET sq == Tensor(SubSeq(t.shape, 1, Len(t.shape) - 1),
                     [n \in 1..(Numel(t) \div 2) |->
                         t.data[2 * n - 1] * t.data[2 * n - 1] + t.data[2 * n] * t.data[2 * n]])
        sm == SumCoil(sq)
    IN  Tensor(sm.shape, [n \in 1..Numel(sm) |-> Sqrt(sm.data[n])])

\* T.apply_padding: multiply by the complement of the padding mask
apply_padding(array, padding) ==
    Mul(array, Tensor(padding.shape, [n \in 1..Numel(padding) |-> 1 - padding.data[n]]))

\* T.apply_mask with a mask tensor: source times mask, broadcasting
apply_mask(kspace, mask) == Mul(kspace, mask)

\* T.conjugate
conjugate(t) ==
    Tensor(t.shape, [n \in 1..Numel(t) |-> IF n % 2 = 0 THEN -t.data[n] ELSE t.data[n]])

\* T.complex_multiplication, broadcasting
complex_multiplication(a, b) ==
    LET s == BroadcastShape(a, b)
        re(t, n) == BAt(t, s, 2 * ((n - 1) \div 2))
        im(t, n) == BAt(t, s, 2 * ((n - 1) \div 2) + 1)
    IN  Tensor(s, [n \in 1..Prod(s) |->
                    IF n % 2 = 1 THEN re(a, n) * re(b, n) - im(a, n) * im(b, n)
                    ELSE re(a, n) * im(b, n) + im(a, n) * re(b, n)])

\* T.safe_divide: zero where the denominator is zero
safe_divide(a, b) ==
    LET s == BroadcastShape(a, b)
    IN  Tensor(s, [n \in 1..Prod(s) |->
                    IF BAt(b, s, n - 1) = 0 THEN 0
                    ELSE Quot(BAt(a, s, n - 1), BAt(b, s, n - 1))])

\* tensor / scalar
DivScalar(t, f) == Tensor(t.shape, [n \in 1..Numel(t) |-> Quot(t.data[n], f.data[1])])

\* The Fourier operators handed to the stages: the discrete Fourier
\* transform over the two spatial axes of a (coil, height, width, 2) tensor
\* whose spatial axes have at most two points (the kernel is then +1/-1).
\* backward leaves the sum unscaled, forward divides by the point count.
Sign(n) == IF n % 2 = 0 THEN 1 ELSE -1

Dft(t, n) ==
    LET H   == t.shape[2]
        W   == t.shape[3]
        idx == Unflat(t.shape, n)
    IN  SumSeq([m \in 1..(H * W) |->
                  LET h == (m - 1) \div W
                      w == (m - 1) % W
                  IN  At(t, <<idx[1], h, w, idx[4]>>) * Sign(idx[2] * h + idx[3] * w)])

backward_operator(t) == Tensor(t.shape, [n \in 1..Numel(t) |-> Dft(t, n - 1)])

forward_operator(t) ==
    Tensor(t.shape, [n \in 1..Numel(t) |-> Quot(Dft(t, n - 1), t.shape[2] * t.shape[3])])

\* crop of the spatial axes to crop_shape with lower corner off
crop_to_bbox(t, crop_shape, off) ==
    LET s == <<t.shape[1], crop_shape[1], crop_shape[2], t.shape[4]>>
    IN  Tensor(s, [n \in 1..Prod(s) |->
                    LET idx == Unflat(s, n - 1)
                    IN  At(t, <<idx[1], idx[2] + off[1], idx[3] + off[2], idx[4]>>)])

\* T.complex_center_crop
complex_center_crop(t, crop_shape) ==
    crop_to_bbox(t, crop_shape,
                 <<(t.shape[2] - crop_shape[1]) \div 2, (t.shape[3] - crop_shape[2]) \div 2>>)

\* the number a seed, or without one the global generator (draw r), yields
Entropy(seed, r) == IF IsNone(seed) THEN r ELSE SumSeq(Val(seed))

\* T.complex_random_crop: the lower corner is drawn among the valid offsets
complex_random_crop(t, crop_shape, seed, r) ==
    LET e  == Entropy(seed, r)
        lh == t.shape[2] - crop_shape[1] + 1
        lw == t.shape[3] - crop_shape[2] + 1
    IN  crop_to_bbox(t, crop_shape, <<(e \div lw) % lh, e % lw>>)

\* The mask generator handed to the stages: mask_func(shape, seed,
\* return_acs), a binary mask of shape (1, height, width, 1) that is a
\* function of (shape, seed) when a seed is given.  A generator is a record
\* of the two bit patterns it starts from.
mask_func(mf, shape, seed, return_acs, r) ==
    LET p == (IF return_acs THEN mf.acs ELSE mf.sampling) + Entropy(seed, r)
        n == shape[1] * shape[2]
    IN  Tensor(<<1, shape[1], shape[2], 1>>, [j \in 1..n |-> (p \div Pow2(j - 1)) % 2])

-----------------------------------------------------------------------------
(* The stages.  X(...) is the object X.__init__ leaves, X_call(self,       *)
(* smp, r) is X.__call__ on the dict smp: the dict as the call leaves it,   *)
(* and whether it returned or raised.  r is what the global random         *)
(* generator yields to a call that runs unseeded.                          *)

\* a filename value and str(filename); map(ord, ...) is the code sequence
Filename(chars) == [kind |-> "str", chars |-> chars]
str(v) == v.chars

\* tuple(map(ord, str(sample["filename"]))) when seeding, else None
Seed_ignores_flag(use_seed, smp) == Some(str(smp["filename"]))
Seed(use_seed, smp) == IF ~use_seed THEN None ELSE Some(str(smp["filename"]))

ToTensor == [cls |-> "ToTensor"]

IsComplexObj(a) == Len(a.data) = 2 * Prod(a.shape)

\* T.to_tensor: a complex array gets the trailing (real, imaginary) axis
to_tensor(a) == IF IsComplexObj(a) THEN Tensor(a.shape \o <<2>>, a.data) ELSE a

byte(a) == Tensor(a.shape, [n \in 1..Numel(a) |-> a.data[n] % 256])

ToTensorKey(s, k) == IF Has(s, k) THEN Put(s, k, to_tensor(s[k])) ELSE s

ToTensor_call(self, smp, r) ==
    IF ~Has(smp, "kspace") THEN Raise(smp, "KeyError", "kspace")
    ELSE IF Len(smp["kspace"].shape) - 1 \notin {2, 3}
    THEN Raise(smp, "ValueError", "ndim")
    ELSE LET s1 == Put(smp, "kspace", to_tensor(smp["kspace"]))
             s2 == ToTensorKey(s1, "initial_kspace")
             s3 == ToTensorKey(s2, "initial_image")
             s4 == ToTensorKey(s3, "sensitivity_map")
             s5 == IF Has(s4, "sampling_mask")
                   THEN Put(s4, "sampling_mask", byte(s4["sampling_mask"])) ELSE s4
         IN  Ok(s5)

\* crop: [kind |-> "none" | "shape" | "key", shape |-> <<h, w>>, key |-> name]
NoCrop == [kind |-> "none", shape |-> << >>, key |-> ""]
CropShape(sh) == [kind |-> "shape", shape |-> sh, key |-> ""]
CropKey(k) == [kind |-> "key", shape |-> << >>, key |-> k]

CropKspace(crop, image_space_center_crop, random_crop_sampler_type, random_crop_sampler_use_seed) ==
    [cls |-> "CropKspace", crop |-> crop,
     image_space_center_crop |-> image_space_center_crop,
     random_crop_sampler_type |-> random_crop_sampler_type,
     random_crop_sampler_use_seed |-> random_crop_sampler_use_seed]

CropKspace_call(self, smp, r) ==
    IF ~Has(smp, "kspace") THEN Raise(smp, "KeyError", "kspace")
    ELSE IF self.crop.kind = "key" /\ ~Has(smp, self.crop.key)
    THEN Raise(smp, "AssertionError", self.crop.key)
    ELSE IF ~self.image_space_center_crop /\ self.random_crop_sampler_use_seed
            /\ ~Has(smp, "filename")
    THEN Raise(smp, "KeyError", "filename")
    ELSE LET backprojected_kspace == backward_operator(smp["kspace"])
             crop_shape == IF self.crop.kind = "key"
                           THEN SubSeq(smp[self.crop.key].data, 1, 2)
                           ELSE self.crop.shape
             cropped == IF self.image_space_center_crop
                        THEN complex_center_crop(backprojected_kspace, crop_shape)
                        ELSE complex_random_crop(backprojected_kspace, crop_shape,
                                 Seed(self.random_crop_sampler_use_seed, smp), r.crop)
         IN  Asking(Ok(Put(smp, "kspace", forward_operator(cropped))),
                    <<IF self.image_space_center_crop
                      THEN Request("complex_center_crop", crop_shape, None, FALSE)
                      ELSE Request("complex_random_crop", crop_shape,
                                   Seed(self.random_crop_sampler_use_seed, smp), FALSE)>>)

\* eps is the rational eps.num / eps.den
ComputeZeroPadding(kspace_key, padding_key, eps) ==
    [cls |-> "ComputeZeroPadding", kspace_key |-> kspace_key, padding_key |-> padding_key,
     eps |-> eps]

ComputeZeroPadding_call(self, smp, r) ==
    IF ~Has(smp, self.kspace_key) THEN Raise(smp, "KeyError", self.kspace_key)
    ELSE LET kspace == SumCoil(modulus(smp[self.kspace_key]))
             total  == SumSeq(kspace.data)
             \* kspace < mean(kspace) * eps, cleared of the two denominators
             below(x) == IF x * Numel(kspace) * self.eps.den < total * self.eps.num
                         THEN 1 ELSE 0
             padding == Unsqueeze(Tensor(kspace.shape,
                                         [n \in 1..Numel(kspace) |-> below(kspace.data[n])]))
         IN  Ok(Put(smp, self.padding_key, padding))

ApplyZeroPadding(kspace_key, padding_key) ==
    [cls |-> "ApplyZeroPadding", kspace_key |-> kspace_key, padding_key |-> padding_key]

ApplyZeroPadding_call(self, smp, r) ==
    IF ~Has(smp, self.kspace_key) THEN Raise(smp, "KeyError", self.kspace_key)
    ELSE IF ~Has(smp, self.padding_key) THEN Raise(smp, "KeyError", self.padding_key)
    ELSE Ok(Put(smp, self.kspace_key,
                apply_padding(smp[self.kspace_key], smp[self.padding_key])))

\* shape: None, or Some of a tuple of optional ints
CreateSamplingMask(mf, shape, use_seed, return_acs) ==
    [cls |-> "CreateSamplingMask", mask_func |-> mf, shape |-> shape, use_seed |-> use_seed,
     return_acs |-> return_acs]

ShapeUnset(shape) == IsNone(shape) \/ Val(shape) = << >>
ShapeHasNone(shape) == \E k \in 1..Len(Val(shape)) : IsNone(Val(shape)[k])
Falsy(o) == IsNone(o) \/ Val(o) = 0

\* the ACS mask requested with the shape of the primary mask
CreateSamplingMask_call_acs_same_shape(self, smp, r) ==
    LET needs_kspace == ShapeUnset(self.shape) \/ ShapeHasNone(self.shape)
    IN
    IF needs_kspace /\ ~Has(smp, "kspace") THEN Raise(smp, "KeyError", "kspace")
    ELSE IF self.use_seed /\ ~Has(smp, "filename") THEN Raise(smp, "KeyError", "filename")
    ELSE LET shape ==
                 IF ShapeUnset(self.shape) THEN Tail(smp["kspace"].shape)
                 ELSE IF ShapeHasNone(self.shape)
                 THEN LET kspace_shape == SubSeq(smp["kspace"].shape, 2,
                                                 Len(smp["kspace"].shape) - 1)
                      IN  [k \in 1..Len(Val(self.shape)) |->
                              IF Falsy(Val(self.shape)[k]) THEN kspace_shape[k]
                              ELSE Val(Val(self.shape)[k])] \o <<2>>
                 ELSE [k \in 1..Len(Val(self.shape)) |-> Val(Val(self.shape)[k])] \o <<2>>
             seed == Seed(self.use_seed, smp)
             generated == mask_func(self.mask_func, shape, seed, FALSE, r.sampling)
             sampling_mask == IF Has(smp, "padding")
                              THEN apply_padding(generated, smp["padding"])
                              ELSE generated
             s1 == Put(smp, "sampling_mask", sampling_mask)
             first == Request("mask_func", shape, seed, FALSE)
         IN  IF ~self.return_acs THEN Asking(Ok(s1), <<first>>)
             ELSE IF ~Has(smp, "kspace") THEN Asking(Raise(s1, "KeyError", "kspace"), <<first>>)
             ELSE Asking(Ok(Put(s1, "acs_mask",
                                mask_func(self.mask_func, shape, seed, TRUE, r.acs))),
                         <<first, Request("mask_func", shape, seed, TRUE)>>)

\* the generated mask stored without the padding applied to it
CreateSamplingMask_call_ignores_padding(self, smp, r) ==
    LET needs_kspace == ShapeUnset(self.shape) \/ ShapeHasNone(self.shape)
    IN
    IF needs_kspace /\ ~Has(smp, "kspace") THEN Raise(smp, "KeyError", "kspace")
    ELSE IF self.use_seed /\ ~Has(smp, "filename") THEN Raise(smp, "KeyError", "filename")
    ELSE LET shape ==
                 IF ShapeUnset(self.shape) THEN Tail(smp["kspace"].shape)
                 ELSE IF ShapeHasNone(self.shape)
                 THEN LET kspace_shape == SubSeq(smp["kspace"].shape, 2,
                                                 Len(smp["kspace"].shape) - 1)
                      IN  [k \in 1..Len(Val(self.shape)) |->
                              IF Falsy(Val(self.shape)[k]) THEN kspace_shape[k]
                              ELSE Val(Val(self.shape)[k])] \o <<2>>
                 ELSE [k \in 1..Len(Val(self.shape)) |-> Val(Val(self.shape)[k])] \o <<2>>
             seed == Seed(self.use_seed, smp)
             generated == mask_func(self.mask_func, shape, seed, FALSE, r.sampling)
             sampling_mask == generated
             s1 == Put(smp, "sampling_mask", sampling_mask)
             first == Request("mask_func", shape, seed, FALSE)
         IN  IF ~self.return_acs THEN Asking(Ok(s1), <<first>>)
             ELSE IF ~Has(smp, "kspace") THEN Asking(Raise(s1, "KeyError", "kspace"), <<first>>)
             ELSE Asking(Ok(Put(s1, "acs_mask",
                                mask_func(self.mask_func, Tail(smp["kspace"].shape), seed, TRUE,
                                          r.acs))),
                         <<first, Request("mask_func", Tail(smp["kspace"].shape), seed, TRUE)>>)

CreateSamplingMask_call(self, smp, r) ==
    LET needs_kspace == ShapeUnset(self.shape) \/ ShapeHasNone(self.shape)
    IN
    IF needs_kspace /\ ~Has(smp, "kspace") THEN Raise(smp, "KeyError", "kspace")
    ELSE IF self.use_seed /\ ~Has(smp, "filename") THEN Raise(smp, "KeyError", "filename")
    ELSE LET shape ==
                 IF ShapeUnset(self.shape) THEN Tail(smp["kspace"].shape)
                 ELSE IF ShapeHasNone(self.shape)
                 THEN LET kspace_shape == SubSeq(smp["kspace"].shape, 2,
                                                 Len(smp["kspace"].shape) - 1)
                      IN  [k \in 1..Len(Val(self.shape)) |->
                              IF Falsy(Val(self.shape)[k]) THEN kspace_shape[k]
                              ELSE Val(Val(self.shape)[k])] \o <<2>>
                 ELSE [k \in 1..Len(Val(self.shape)) |-> Val(Val(self.shape)[k])] \o <<2>>
             seed == Seed(self.use_seed, smp)
             generated == mask_func(self.mask_func, shape, seed, FALSE, r.sampling)
             sampling_mask == IF Has(smp, "padding")
                              THEN apply_padding(generated, smp["padding"])
                              ELSE generated
             s1 == Put(smp, "sampling_mask", sampling_mask)
             first == Request("mask_func", shape, seed, FALSE)
         IN  IF ~self.return_acs THEN Asking(Ok(s1), <<first>>)
             ELSE IF ~Has(smp, "kspace") THEN Asking(Raise(s1, "KeyError", "kspace"), <<first>>)
             ELSE Asking(Ok(Put(s1, "acs_mask",
                                mask_func(self.mask_func, Tail(smp["kspace"].shape), seed, TRUE,
                                          r.acs))),
                         <<first, Request("mask_func", Tail(smp["kspace"].shape), seed, TRUE)>>)

ApplyMask(sampling_mask_key, input_kspace_key, target_kspace_key) ==
    [cls |-> "ApplyMask", sampling_mask_key |-> sampling_mask_key,
     input_kspace_key |-> input_kspace_key, target_kspace_key |-> target_kspace_key]

ApplyMask_call_mask_first(self, smp, r) ==
    IF ~Has(smp, self.sampling_mask_key)
    THEN Raise(smp, "ValueError", self.sampling_mask_key)
    ELSE IF ~Has(smp, self.input_kspace_key)
    THEN Raise(smp, "ValueError", self.input_kspace_key)
    ELSE Ok(Put(smp, self.target_kspace_key,
                apply_mask(smp[self.input_kspace_key], smp[self.sampling_mask_key])))

ApplyMask_call_in_place(self, smp, r) ==
    IF ~Has(smp, self.input_kspace_key)
    THEN Raise(smp, "ValueError", self.input_kspace_key)
    ELSE IF ~Has(smp, self.sampling_mask_key)
    THEN Raise(smp, "ValueError", self.sampling_mask_key)
    ELSE LET masked == apply_mask(smp[self.input_kspace_key], smp[self.sampling_mask_key])
         IN  Ok(Put(Put(smp, self.input_kspace_key, masked), self.target_kspace_key, masked))

\* the k-space multiplied by the complement of the mask
ApplyMask_call_complement(self, smp, r) ==
    IF ~Has(smp, self.input_kspace_key) THEN Raise(smp, "ValueError", self.input_kspace_key)
    ELSE IF ~Has(smp, self.sampling_mask_key) THEN Raise(smp, "ValueError", self.sampling_mask_key)
    ELSE LET sampling_mask == smp[self.sampling_mask_key]
             inverse == Tensor(sampling_mask.shape,
                               [n \in 1..Numel(sampling_mask) |-> 1 - sampling_mask.data[n]])
         IN  Ok(Put(smp, self.target_kspace_key, apply_mask(smp[self.input_kspace_key], inverse)))

ApplyMask_call(self, smp, r) ==
    IF ~Has(smp, self.input_kspace_key)
    THEN Raise(smp, "ValueError", self.input_kspace_key)
    ELSE IF ~Has(smp, self.sampling_mask_key)
    THEN Raise(smp, "ValueError", self.sampling_mask_key)
    ELSE Ok(Put(smp, self.target_kspace_key,
                apply_mask(smp[self.input_kspace_key], smp[self.sampling_mask_key])))

ComputeImage(kspace_key, target_key, type_reconstruction) ==
    [cls |-> "ComputeImage", kspace_key |-> kspace_key, target_key |-> target_key,
     type_reconstruction |-> type_reconstruction]

ReconstructionType == {"rss", "complex", "complex_mod", "sense", "sense_mod"}

\* the sensitivity-map test hoisted above the branch on the type
ComputeImage_call_checks_first(self, smp, r) ==
    IF ~Has(smp, self.kspace_key) THEN Raise(smp, "KeyError", self.kspace_key)
    ELSE IF ~Has(smp, "sensitivity_map")
    THEN Raise(smp, "ItemNotFoundException", "sensitivity map")
    ELSE LET image == backward_operator(smp[self.kspace_key])
             out == IF self.type_reconstruction \in {"complex", "complex_mod"}
                    THEN SumCoil(image)
                    ELSE IF self.type_reconstruction = "rss" THEN root_sum_of_squares(image)
                    ELSE SumCoil(complex_multiplication(conjugate(smp["sensitivity_map"]), image))
         IN  Ok(Put(smp, self.target_key,
                    IF self.type_reconstruction \in {"complex_mod", "sense_mod"}
                    THEN modulus(out) ELSE out))

\* a type outside the enumeration rejected by the call
ComputeImage_call_validates(self, smp, r) ==
    IF ~Has(smp, self.kspace_key) THEN Raise(smp, "KeyError", self.kspace_key)
    ELSE IF self.type_reconstruction \notin ReconstructionType
    THEN Raise(smp, "ValueError", "type_reconstruction")
    ELSE LET image == backward_operator(smp[self.kspace_key])
             s1 == IF self.type_reconstruction \in {"complex", "complex_mod"}
                   THEN Ok(Put(smp, self.target_key, SumCoil(image)))
                   ELSE IF self.type_reconstruction = "rss"
                   THEN Ok(Put(smp, self.target_key, root_sum_of_squares(image)))
                   ELSE IF ~Has(smp, "sensitivity_map")
                   THEN Raise(smp, "ItemNotFoundException", "sensitivity map")
                   ELSE Ok(Put(smp, self.target_key,
                               SumCoil(complex_multiplication(
                                           conjugate(smp["sensitivity_map"]), image))))
         IN  IF s1.ok /\ self.type_reconstruction \in {"complex_mod", "sense_mod"}
             THEN Ok(Put(s1.sample, self.target_key, modulus(s1.sample[self.target_key])))
             ELSE s1

ComputeImage_call(self, smp, r) ==
    IF ~Has(smp, self.kspace_key) THEN Raise(smp, "KeyError", self.kspace_key)
    ELSE LET image == backward_operator(smp[self.kspace_key])
             s1 == IF self.type_reconstruction \in {"complex", "complex_mod"}
                   THEN Ok(Put(smp, self.target_key, SumCoil(image)))
                   ELSE IF self.type_reconstruction = "rss"
                   THEN Ok(Put(smp, self.target_key, root_sum_of_squares(image)))
                   ELSE IF ~Has(smp, "sensitivity_map")
                   THEN Raise(smp, "ItemNotFoundException", "sensitivity map")
                   ELSE Ok(Put(smp, self.target_key,
                               SumCoil(complex_multiplication(
                                           conjugate(smp["sensitivity_map"]), image))))
         IN  IF s1.ok /\ self.type_reconstruction \in {"complex_mod", "sense_mod"}
             THEN Ok(Put(s1.sample, self.target_key, modulus(s1.sample[self.target_key])))
             ELSE s1

EstimateBodyCoilImage(mf, use_seed) ==
    [cls |-> "EstimateBodyCoilImage", mask_func |-> mf, use_seed |-> use_seed]

\* the ACS mask it generates also stored in the sample
EstimateBodyCoilImage_call_stores_acs(self, smp, r) ==
    IF ~Has(smp, "kspace") THEN Raise(smp, "KeyError", "kspace")
    ELSE IF self.use_seed /\ ~Has(smp, "filename") THEN Raise(smp, "KeyError", "filename")
    ELSE LET seed == Seed(self.use_seed, smp)
             acs_mask == mask_func(self.mask_func, Tail(smp["kspace"].shape), seed, TRUE, r.acs)
             acs_image == backward_operator(Mul(acs_mask, smp["kspace"]))
         IN  Asking(Ok(Put(Put(smp, "acs_mask", acs_mask),
                           "body_coil_image", root_sum_of_squares(acs_image))),
                    <<Request("mask_func", Tail(smp["kspace"].shape), seed, TRUE)>>)

EstimateBodyCoilImage_call(self, smp, r) ==
    IF ~Has(smp, "kspace") THEN Raise(smp, "KeyError", "kspace")
    ELSE IF self.use_seed /\ ~Has(smp, "filename") THEN Raise(smp, "KeyError", "filename")
    ELSE LET seed == Seed(self.use_seed, smp)
             acs_mask == mask_func(self.mask_func, Tail(smp["kspace"].shape), seed, TRUE, r.acs)
             acs_image == backward_operator(Mul(acs_mask, smp["kspace"]))
         IN  Asking(Ok(Put(smp, "body_coil_image", root_sum_of_squares(acs_image))),
                    <<Request("mask_func", Tail(smp["kspace"].shape), seed, TRUE)>>)

\* gaussian_sigma is None or 0 throughout: the Gaussian weighting of the
\* ACS region (an exponential) is not modelled.
EstimateSensitivityMap(kspace_key, type_of_map, gaussian_sigma) ==
    [cls |-> "EstimateSensitivityMap", kspace_key |-> kspace_key, type_of_map |-> type_of_map,
     gaussian_sigma |-> gaussian_sigma]

EstimateSensitivityMap_call(self, smp, r) ==
    IF ~Has(smp, self.kspace_key) THEN Raise(smp, "KeyError", self.kspace_key)
    ELSE IF self.type_of_map = "unit"
    THEN LET kspace == smp[self.kspace_key]
         IN  Ok(Put(smp, "sensitivity_map",
                    Tensor(kspace.shape, [n \in 1..Numel(kspace) |-> IF n % 2 = 1 THEN 1 ELSE 0])))
    ELSE IF self.type_of_map = "rss_estimate"
    THEN IF ~Has(smp, "acs_mask") THEN Raise(smp, "KeyError", "acs_mask")
         ELSE LET acs_image == backward_operator(Mul(smp[self.kspace_key], smp["acs_mask"]))
                  acs_image_rss == Unsqueeze(root_sum_of_squares(acs_image))
              IN  Ok(Put(smp, "sensitivity_map", safe_divide(acs_image, acs_image_rss)))
    ELSE Ok(smp)

DeleteKeys(keys) == [cls |-> "DeleteKeys", keys |-> keys]

RECURSIVE DeleteAll(_, _)
DeleteAll(smp, keys) ==
    IF keys = << >> THEN smp
    ELSE DeleteAll(IF Has(smp, Head(keys)) THEN Del(smp, Head(keys)) ELSE smp, Tail(keys))

\* the keys deleted without the membership test
DeleteKeys_call_unguarded(self, smp, r) ==
    IF \E n \in 1..Len(self.keys) :
          ~Has(DeleteAll(smp, SubSeq(self.keys, 1, n - 1)), self.keys[n])
    THEN LET n == CHOOSE n \in 1..Len(self.keys) :
                     /\ ~Has(DeleteAll(smp, SubSeq(self.keys, 1, n - 1)), self.keys[n])
                     /\ \A m \in 1..(n - 1) :
                           Has(DeleteAll(smp, SubSeq(self.keys, 1, m - 1)), self.keys[m])
         IN  Raise(DeleteAll(smp, SubSeq(self.keys, 1, n - 1)), "KeyError", self.keys[n])
    ELSE Ok(DeleteAll(smp, self.keys))

DeleteKeys_call(self, smp, r) == Ok(DeleteAll(smp, self.keys))

RenameKeys(old_keys, new_keys) ==
    [cls |-> "RenameKeys", old_keys |-> old_keys, new_keys |-> new_keys]

\* zip stops at the shorter list
RECURSIVE RenameAll(_, _, _)
RenameAll(smp, old_keys, new_keys) ==
    IF old_keys = << >> \/ new_keys = << >> THEN smp
    ELSE RenameAll(IF Has(smp, Head(old_keys))
                   THEN Put(Del(smp, Head(old_keys)), Head(new_keys), smp[Head(old_keys)])
                   ELSE smp,
                   Tail(old_keys), Tail(new_keys))

RenameKeys_call(self, smp, r) == Ok(RenameAll(smp, self.old_keys, self.new_keys))

PadCoilDimension(pad_coils, key) ==
    [cls |-> "PadCoilDimension", num_coils |-> pad_coils, key |-> key]

\* the zeros concatenated behind the data instead of in front of it
PadCoilDimension_call_appends(self, smp, r) ==
    IF Falsy(self.num_coils) THEN Ok(smp)
    ELSE IF ~Has(smp, self.key) THEN Ok(smp)
    ELSE LET data == smp[self.key]
             curr_num_coils == data.shape[1]
             num_coils == Val(self.num_coils)
         IN  IF curr_num_coils > num_coils
             THEN IF ~Has(smp, "filename") THEN Raise(smp, "KeyError", "filename")
                  ELSE Raise(smp, "ValueError", "pad_coils")
             ELSE IF curr_num_coils = num_coils THEN Ok(smp)
             ELSE LET extra == Max(num_coils - curr_num_coils, 0) * Prod(Tail(data.shape))
                      zeros == [n \in 1..extra |-> 0]
                  IN  Ok(Put(smp, self.key,
                             Tensor(<<num_coils>> \o Tail(data.shape), data.data \o zeros)))

PadCoilDimension_call(self, smp, r) ==
    IF Falsy(self.num_coils) THEN Ok(smp)
    ELSE IF ~Has(smp, self.key) THEN Ok(smp)
    ELSE LET data == smp[self.key]
             curr_num_coils == data.shape[1]
             num_coils == Val(self.num_coils)
         IN  IF curr_num_coils > num_coils
             THEN \* the message formats sample['filename']
                  IF ~Has(smp, "filename") THEN Raise(smp, "KeyError", "filename")
                  ELSE Raise(smp, "ValueError", "pad_coils")
             ELSE IF curr_num_coils = num_coils THEN Ok(smp)
             ELSE LET extra == Max(num_coils - curr_num_coils, 0) * Prod(Tail(data.shape))
                      zeros == [n \in 1..extra |-> 0]
                  IN  Ok(Put(smp, self.key,
                             Tensor(<<num_coils>> \o Tail(data.shape), zeros \o data.data)))

\* normalize_key: None or Some(key); percentile: None or Some([num, den])
ComputeScalingFactor(normalize_key, percentile, scaling_factor_key) ==
    [cls |-> "ComputeScalingFactor", normalize_key |-> normalize_key,
     percentile |-> percentile, scaling_factor_key |-> scaling_factor_key]

RECURSIVE Insert(_, _)
Insert(sorted, v) ==
    IF sorted = << >> THEN <<v>>
    ELSE IF v <= Head(sorted) THEN <<v>> \o sorted
    ELSE <<Head(sorted)>> \o Insert(Tail(sorted), v)

RECURSIVE SortAsc(_)
SortAsc(seq) == IF seq = << >> THEN << >> ELSE Insert(SortAsc(Tail(seq)), Head(seq))

\* torch.kthvalue: the k-th smallest entry (k counted from 1)
kthvalue(seq, k) == SortAsc(seq)[k]

\* the rank rounded up instead of truncated and stepped
KthRank_ceiling(percentile, size) ==
    Quot((percentile.den - percentile.num) * size + percentile.den - 1, percentile.den)

\* int((1 - percentile) * size) + 1, percentile the rational num / den. The
\* code computes the product in double precision; for a percentile whose
\* denominator is a power of two the doubles are exact on these sizes.
KthRank(percentile, size) == Quot((percentile.den - percentile.num) * size, percentile.den) + 1

MaxSeq(seq) == CHOOSE v \in {seq[n] : n \in 1..Len(seq)} : \A n \in 1..Len(seq) : seq[n] <= v

\* the factor always stored under the literal key "scaling_factor"
ComputeScalingFactor_call_literal_key(self, smp, r) ==
    IF self.normalize_key = Some("scaling_factor")
    THEN IF ~Has(smp, "scaling_factor") THEN Raise(smp, "KeyError", "scaling_factor")
         ELSE Ok(Put(smp, "scaling_factor", smp["scaling_factor"]))
    ELSE IF IsNone(self.normalize_key) \/ self.normalize_key = Some("")
    THEN Ok(Put(smp, "scaling_factor", Scalar(1)))
    ELSE IF ~Has(smp, Val(self.normalize_key)) THEN Raise(smp, "KeyError", Val(self.normalize_key))
    ELSE LET mods == modulus(smp[Val(self.normalize_key)]).data
         IN  IF ~IsNone(self.percentile) /\ Val(self.percentile).num # 0
             THEN LET tview == [n \in 1..Len(mods) |-> -1 * mods[n]]
                      k == KthRank(Val(self.percentile), Len(tview))
                  IN  IF k \notin 1..Len(tview) THEN Raise(smp, "RuntimeError", "kthvalue")
                      ELSE Ok(Put(smp, "scaling_factor", Scalar(-1 * kthvalue(tview, k))))
             ELSE IF mods = << >> THEN Raise(smp, "RuntimeError", "max")
             ELSE Ok(Put(smp, "scaling_factor", Scalar(MaxSeq(mods))))

ComputeScalingFactor_call(self, smp, r) ==
    IF self.normalize_key = Some("scaling_factor")
    THEN IF ~Has(smp, "scaling_factor") THEN Raise(smp, "KeyError", "scaling_factor")
         ELSE Ok(Put(smp, self.scaling_factor_key, smp["scaling_factor"]))
    ELSE IF IsNone(self.normalize_key) \/ self.normalize_key = Some("")
    THEN Ok(Put(smp, self.scaling_factor_key, Scalar(1)))
    ELSE IF ~Has(smp, Val(self.normalize_key))
    THEN Raise(smp, "KeyError", Val(self.normalize_key))
    ELSE LET data == smp[Val(self.normalize_key)]
             mods == modulus(data).data
         IN  IF ~IsNone(self.percentile) /\ Val(self.percentile).num # 0
             THEN LET tview == [n \in 1..Len(mods) |-> -1 * mods[n]]
                      k == KthRank(Val(self.percentile), Len(tview))
                  IN  IF k \notin 1..Len(tview) THEN Raise(smp, "RuntimeError", "kthvalue")
                      ELSE Ok(Put(smp, self.scaling_factor_key,
                                  Scalar(-1 * kthvalue(tview, k))))
             ELSE IF mods = << >> THEN Raise(smp, "RuntimeError", "max")
             ELSE Ok(Put(smp, self.scaling_factor_key, Scalar(MaxSeq(mods))))

DefaultKeysToNormalize ==
    {"masked_kspace", "target", "kspace", "body_coil_image", "initial_image", "initial_kspace"}

\* keys_to_normalize: None (the default list) or Some(set of keys)
Normalize(scaling_factor_key, keys_to_normalize) ==
    [cls |-> "Normalize", scaling_factor_key |-> scaling_factor_key,
     keys_to_normalize |-> IF IsNone(keys_to_normalize) THEN DefaultKeysToNormalize
                           ELSE Val(keys_to_normalize)]

\* truth value of a scalar
Truthy(v) == v.data[1] # 0

Normalize_call_skips_target(self, smp, r) ==
    IF Has(smp, self.scaling_factor_key) /\ Truthy(smp[self.scaling_factor_key])
    THEN LET scaling_factor == smp[self.scaling_factor_key]
             divided == [key \in DOMAIN smp |->
                            IF key \notin self.keys_to_normalize \ {"target"} THEN smp[key]
                            ELSE DivScalar(smp[key], scaling_factor)]
         IN  Ok(Put(divided, "scaling_diff", Scalar(0)))
    ELSE Ok(smp)
\* the marker field stamped outside the test of the factor
Normalize_call_always_stamps(self, smp, r) ==
    IF Has(smp, self.scaling_factor_key) /\ Truthy(smp[self.scaling_factor_key])
    THEN LET scaling_factor == smp[self.scaling_factor_key]
             divided == [key \in DOMAIN smp |->
                            IF key \notin self.keys_to_normalize THEN smp[key]
                            ELSE DivScalar(smp[key], scaling_factor)]
         IN  Ok(Put(divided, "scaling_diff", Scalar(0)))
    ELSE Ok(Put(smp, "scaling_diff", Scalar(0)))

Normalize_call(self, smp, r) ==
    IF Has(smp, self.scaling_factor_key) /\ Truthy(smp[self.scaling_factor_key])
    THEN LET scaling_factor == smp[self.scaling_factor_key]
             divided == [key \in DOMAIN smp |->
                            IF key \notin self.keys_to_normalize THEN smp[key]
                            ELSE DivScalar(smp[key], scaling_factor)]
         IN  Ok(Put(divided, "scaling_diff", Scalar(0)))
    ELSE Ok(smp)

\* transform(sample) for a stage object
Apply(stage, smp, r) ==
    CASE stage.cls = "ToTensor" -> ToTensor_call(stage, smp, r)
      [] stage.cls = "CropKspace" -> CropKspace_call(stage, smp, r)
      [] stage.cls = "ComputeZeroPadding" -> ComputeZeroPadding_call(stage, smp, r)
      [] stage.cls = "ApplyZeroPadding" -> ApplyZeroPadding_call(stage, smp, r)
      [] stage.cls = "CreateSamplingMask" -> CreateSamplingMask_call(stage, smp, r)
      [] stage.cls = "ApplyMask" -> ApplyMask_call(stage, smp, r)
      [] stage.cls = "ComputeImage" -> ComputeImage_call(stage, smp, r)
      [] stage.cls = "EstimateBodyCoilImage" -> EstimateBodyCoilImage_call(stage, smp, r)
      [] stage.cls = "EstimateSensitivityMap" -> EstimateSensitivityMap_call(stage, smp, r)
      [] stage.cls = "DeleteKeys" -> DeleteKeys_call(stage, smp, r)
      [] stage.cls = "RenameKeys" -> RenameKeys_call(stage, smp, r)
      [] stage.cls = "PadCoilDimension" -> PadCoilDimension_call(stage, smp, r)
      [] stage.cls = "ComputeScalingFactor" -> ComputeScalingFactor_call(stage, smp, r)
      [] stage.cls = "Normalize" -> Normalize_call(stage, smp, r)

\* What the global random generator can yield to one call of a stage: one
\* number per unseeded draw the call makes.
Random == 0..3
NoDraw == [sampling |-> 0, acs |-> 0, crop |-> 0]

Draws(stage) ==
    IF stage.cls = "CreateSamplingMask" /\ ~stage.use_seed
    THEN {[sampling |-> a, acs |-> b, crop |-> 0] :
             a \in Random, b \in IF stage.return_acs THEN Random ELSE {0}}
    ELSE IF stage.cls = "EstimateBodyCoilImage" /\ ~stage.use_seed
    THEN {[sampling |-> 0, acs |-> b, crop |-> 0] : b \in Random}
    ELSE IF stage.cls = "CropKspace" /\ ~stage.image_space_center_crop
            /\ ~stage.random_crop_sampler_use_seed
    THEN {[sampling |-> 0, acs |-> 0, crop |-> c] : c \in Random}
    ELSE {NoDraw}

-----------------------------------------------------------------------------
(* build_mri_transforms.  The two operators are the module's Fourier pair. *)

CropSet(crop) ==
    (crop.kind = "shape" /\ crop.shape # << >>) \/ (crop.kind = "key" /\ crop.key # "")

\* "if crop: mri_transforms += [CropKspace(...)]"
CropStages(c) ==
    IF CropSet(c.crop)
    THEN <<CropKspace(c.crop, c.image_center_crop, c.crop_type, c.use_seed)>>
    ELSE << >>

\* "if mask_func: mri_transforms += [ComputeZeroPadding, ApplyZeroPadding, CreateSamplingMask]"
MaskStages(c) ==
    IF ~IsNone(c.mask_func)
    THEN <<ComputeZeroPadding("kspace", "padding", c.padding_eps),
           ApplyZeroPadding("kspace", "padding"),
           CreateSamplingMask(Val(c.mask_func),
                              IF c.crop.kind = "shape"
                              THEN Some([k \in 1..Len(c.crop.shape) |-> Some(c.crop.shape[k])])
                              ELSE None,
                              c.use_seed, c.estimate_sensitivity_maps)>>
    ELSE << >>

SensitivityStages(c) ==
    <<EstimateSensitivityMap("kspace",
                             IF ~c.estimate_sensitivity_maps THEN "unit" ELSE "rss_estimate",
                             c.sensitivity_maps_gaussian)>>

DeleteAcsStages(c) == IF c.delete_acs_mask THEN <<DeleteKeys(<<"acs_mask">>)>> ELSE << >>

TargetStages_swapped(c) ==
    <<ApplyMask("sampling_mask", "kspace", "masked_kspace"),
      ComputeImage("kspace", "target", c.image_recon_type)>>
\* mask application added only under a mask function
TargetStages_mask_optional(c) ==
    <<ComputeImage("kspace", "target", c.image_recon_type)>>
    \o (IF IsNone(c.mask_func) THEN << >>
        ELSE <<ApplyMask("sampling_mask", "kspace", "masked_kspace")>>)
TargetStages(c) ==
    <<ComputeImage("kspace", "target", c.image_recon_type),
      ApplyMask("sampling_mask", "kspace", "masked_kspace")>>

BodyCoilStages(c) ==
    IF c.estimate_body_coil_image /\ ~IsNone(c.mask_func)
    THEN <<EstimateBodyCoilImage(Val(c.mask_func), c.use_seed)>>
    ELSE << >>

ScalingStages(c) ==
    <<ComputeScalingFactor(c.scaling_key, c.scale_percentile, "scaling_factor"),
      Normalize("scaling_factor", None),
      PadCoilDimension(c.pad_coils, "masked_kspace"),
      PadCoilDimension(c.pad_coils, "sensitivity_map")>>

DeleteKspaceStages(c) == IF c.delete_kspace THEN <<DeleteKeys(<<"kspace">>)>> ELSE << >>

build_mri_transforms(c) ==
    <<ToTensor>> \o CropStages(c) \o MaskStages(c) \o SensitivityStages(c)
    \o DeleteAcsStages(c) \o TargetStages(c) \o BodyCoilStages(c) \o ScalingStages(c)
    \o DeleteKspaceStages(c)

-----------------------------------------------------------------------------
(* Compose.__call__: "for transform in self.transforms: sample =           *)
(* transform(sample)", then "return sample".  An exception of a stage is   *)
(* not caught and ends the call.                                           *)

\* the transform the loop yields once n stages have returned
Compose_iter_reversed(ts, n) == ts[Len(ts) - n]
Compose_iter(ts, n) == ts[n + 1]

\* where the call stands after the stage's result res at iteration n
Compose_after_swallow(res, n) ==
    [pc |-> "running", i |-> n + 1, sample |-> res.sample, err |-> NoError]
Compose_after(res, n) ==
    [pc |-> IF res.ok THEN "running" ELSE "raised",
     i |-> IF res.ok THEN n + 1 ELSE n,
     sample |-> res.sample,
     err |-> res.err]

\* the caller invokes the pipeline object on its sample
Call ==
    /\ pc = "ready"
    /\ pc' = "running"
    /\ UNCHANGED <<cfg, transforms, sample, sample0, i, calls, inputs, outputs, err, ret, other>>

\* one iteration of the loop: the next stage is called on the current mapping
\* the sample put back as the caller passed it in when a stage raises
StageCall_rollback ==
    /\ pc = "running"
    /\ i < Len(transforms)
    /\ \E r \in Draws(Compose_iter(transforms, i)) :
          LET stage == Compose_iter(transforms, i)
              res   == Apply(stage, sample, r)
              after == Compose_after(res, i)
          IN  /\ calls' = Append(calls, stage)
              /\ inputs' = Append(inputs, sample)
              /\ outputs' = Append(outputs, res)
              /\ sample' = IF res.ok THEN after.sample ELSE sample0
              /\ pc' = after.pc
              /\ i' = after.i
              /\ err' = after.err
    /\ UNCHANGED <<cfg, transforms, sample0, ret, other>>

StageCall ==
    /\ pc = "running"
    /\ i < Len(transforms)
    /\ \E r \in Draws(Compose_iter(transforms, i)) :
          LET stage == Compose_iter(transforms, i)
              res   == Apply(stage, sample, r)
              after == Compose_after(res, i)
          IN  /\ calls' = Append(calls, stage)
              /\ inputs' = Append(inputs, sample)
              /\ outputs' = Append(outputs, res)
              /\ sample' = after.sample
              /\ pc' = after.pc
              /\ i' = after.i
              /\ err' = after.err
    /\ UNCHANGED <<cfg, transforms, sample0, ret, other>>

\* the loop is exhausted: return sample
Return ==
    /\ pc = "running"
    /\ i >= Len(transforms)
    /\ ret' = Some(sample)
    /\ pc' = "returned"
    /\ UNCHANGED <<cfg, transforms, sample, sample0, i, calls, inputs, outputs, err, other>>

\* build_mri_transforms(**cfg) returns Compose(mri_transforms)
Build ==
    /\ pc = "new"
    /\ transforms' = build_mri_transforms(cfg)
    /\ pc' = "ready"
    /\ UNCHANGED <<cfg, sample, sample0, i, calls, inputs, outputs, err, ret, other>>

NextRun == Call \/ StageCall \/ Return
Next == Build \/ Call \/ StageCall \/ Return

\* A second caller (another worker thread) invokes the same Compose object
\* on a sample of its own: its loop variable and its sample are locals of
\* its own call, the stage list is the shared object's.
CallOther ==
    /\ other.pc = "ready"
    /\ other' = [other EXCEPT !.pc = "running"]
    /\ UNCHANGED <<cfg, transforms, sample, sample0, pc, i, calls, inputs, outputs, err, ret>>

\* the second call's loop with its cursor kept on the shared object
StageCallOther_shared_cursor ==
    /\ other.pc = "running"
    /\ other.i < Len(transforms)
    /\ i < Len(transforms)
    /\ \E r \in Draws(Compose_iter(transforms, i)) :
          LET after == Compose_after(Apply(Compose_iter(transforms, i), other.sample, r),
                                     other.i)
          IN  other' = [other EXCEPT !.pc = after.pc, !.i = after.i,
                                     !.sample = after.sample, !.err = after.err]
    /\ UNCHANGED <<cfg, transforms, sample, sample0, pc, i, calls, inputs, outputs, err, ret>>

StageCallOther ==
    /\ other.pc = "running"
    /\ other.i < Len(transforms)
    /\ \E r \in Draws(Compose_iter(transforms, other.i)) :
          LET after == Compose_after(Apply(Compose_iter(transforms, other.i), other.sample, r),
                                     other.i)
          IN  other' = [other EXCEPT !.pc = after.pc, !.i = after.i,
                                     !.sample = after.sample, !.err = after.err]
    /\ UNCHANGED <<cfg, transforms, sample, sample0, pc, i, calls, inputs, outputs, err, ret>>

ReturnOther ==
    /\ other.pc = "running"
    /\ other.i >= Len(transforms)
    /\ other' = [other EXCEPT !.pc = "returned"]
    /\ UNCHANGED <<cfg, transforms, sample, sample0, pc, i, calls, inputs, outputs, err, ret>>

\* the state before a run on the sample smp
\* no second call is in progress
NoRun == [pc |-> "none", i |-> 0, sample |-> << >>, sample0 |-> << >>, err |-> NoError]

Fresh(smp) ==
    /\ sample = smp
    /\ sample0 = smp
    /\ i = 0
    /\ calls = << >>
    /\ inputs = << >>
    /\ outputs = << >>
    /\ err = NoError
    /\ ret = None
    /\ other = NoRun

NoCfg == [kind |-> "none"]

-----------------------------------------------------------------------------
(* Compose objects over free stage lists.                                  *)

Tensors(shape, vals) == {Tensor(shape, d) : d \in [1..Prod(shape) -> vals]}

RECURSIVE SeqsUpTo(_, _)
SeqsUpTo(S, n) ==
    IF n = 0 THEN {<< >>}
    ELSE LET shorter == SeqsUpTo(S, n - 1)
         IN  shorter \cup {Append(q, x) : q \in shorter, x \in S}

DefaultFilename == Filename(<<97>>)

ComposeStages ==
    {ApplyMask("sampling_mask", "kspace", "masked_kspace"),
     ComputeImage("kspace", "target", "rss"),
     ComputeImage("kspace", "target", "sense"),
     EstimateSensitivityMap("kspace", "unit", None),
     DeleteKeys(<<"kspace">>),
     ComputeScalingFactor(Some("masked_kspace"), None, "scaling_factor"),
     Normalize("scaling_factor", None)}

ComposeSamples ==
    LET ks == Tensor(<<2, 1, 1, 2>>, <<MaxVal, 1, 0, MaxVal>>)
        fn == "filename" :> DefaultFilename
    IN  {fn,
         fn @@ "kspace" :> ks,
         fn @@ "kspace" :> ks @@ "sampling_mask" :> Tensor(<<1, 1, 1, 1>>, <<1>>),
         fn @@ "kspace" :> ks @@ "sampling_mask" :> Tensor(<<1, 1, 1, 1>>, <<0>>),
         fn @@ "sampling_mask" :> Tensor(<<1, 1, 1, 1>>, <<1>>)}

InitCompose ==
    /\ cfg = NoCfg
    /\ transforms \in SeqsUpTo(ComposeStages, MaxStages)
    /\ pc = "ready"
    /\ \E smp \in ComposeSamples : Fresh(smp)

SpecCompose == InitCompose /\ [][NextRun]_vars

\* C1: Compose calls the stages of its list once each in list order, hands
\* each stage the mapping the previous stage returned (the caller's sample
\* to the first), and returns the mapping the last stage returned; with an
\* empty list it returns the caller's sample unchanged.
C1_ComposeInOrder ==
    /\ Len(calls) <= Len(transforms)
    /\ \A k \in 1..Len(calls) : calls[k] = transforms[k]
    /\ \A k \in 1..Len(inputs) :
          inputs[k] = IF k = 1 THEN sample0 ELSE outputs[k - 1].sample
    /\ pc = "returned" =>
          /\ calls = transforms
          /\ \A k \in 1..Len(outputs) : outputs[k].ok
          /\ ret = Some(IF transforms = << >> THEN sample0
                        ELSE outputs[Len(outputs)].sample)

C1_Witness ==
    /\ pc = "returned"
    /\ Len(transforms) = 3
    /\ transforms[1] # transforms[2] /\ transforms[2] # transforms[3]
    /\ outputs[1].sample # sample0
    /\ outputs[2].sample # outputs[1].sample
    /\ outputs[3].sample # outputs[2].sample

\* C2: when a stage fails the run ends in that failure: the failing stage
\* is the last one called, the caller sees its error, nothing is retried
\* and no mapping is returned.
C2_FailureAborts ==
    \A k \in 1..Len(outputs) :
        ~outputs[k].ok =>
            /\ k = Len(outputs)
            /\ Len(calls) = k
            /\ pc = "raised"
            /\ err = outputs[k].err
            /\ err # NoError
            /\ ret = None

C2_Witness ==
    /\ pc = "raised"
    /\ Len(transforms) = 3
    /\ Len(calls) = 2
    /\ outputs[1].ok /\ ~outputs[2].ok

-----------------------------------------------------------------------------
(* build_mri_transforms over its flags.                                    *)

MaskFuncs == {[sampling |-> 1, acs |-> 3], [sampling |-> 2, acs |-> 1]}

Eps(num, den) == [num |-> num, den |-> den]
Percentile(num, den) == [num |-> num, den |-> den]
DefaultPaddingEps == Eps(1, 10000)

BuildCfgs ==
    [mask_func : {None} \cup {Some(mf) : mf \in MaskFuncs},
     crop : {NoCrop, CropShape(<<1, 1>>), CropKey("reconstruction_size")},
     crop_type : {"uniform", "gaussian"},
     image_center_crop : BOOLEAN,
     padding_eps : {DefaultPaddingEps, Eps(1, 1)},
     estimate_sensitivity_maps : BOOLEAN,
     estimate_body_coil_image : BOOLEAN,
     sensitivity_maps_gaussian : {None},
     delete_acs_mask : BOOLEAN,
     delete_kspace : BOOLEAN,
     image_recon_type : ReconstructionType,
     pad_coils : {None, Some(2)},
     scaling_key : {None, Some("masked_kspace")},
     scale_percentile : {None, Some(Percentile(1, 2))},
     use_seed : BOOLEAN]

InitBuild ==
    /\ cfg \in BuildCfgs
    /\ transforms = << >>
    /\ pc = "new"
    /\ Fresh("filename" :> DefaultFilename)

SpecBuild == InitBuild /\ [][Build]_vars

\* the place of a stage object in the canonical sequence
C3_Role(stage) ==
    CASE stage.cls = "ToTensor" -> "materialize"
      [] stage.cls = "CropKspace" -> "crop"
      [] stage.cls = "ComputeZeroPadding" -> "padding-detect"
      [] stage.cls = "ApplyZeroPadding" -> "padding-apply"
      [] stage.cls = "CreateSamplingMask" -> "mask-create"
      [] stage.cls = "EstimateSensitivityMap" -> "sensitivity-map estimate"
      [] stage.cls = "DeleteKeys" /\ stage.keys = <<"acs_mask">> -> "delete ACS mask"
      [] stage.cls = "ComputeImage" /\ stage.target_key = "target" -> "compute target image"
      [] stage.cls = "ApplyMask" /\ stage.target_kspace_key = "masked_kspace" -> "apply mask"
      [] stage.cls = "EstimateBodyCoilImage" -> "estimate body coil image"
      [] stage.cls = "ComputeScalingFactor" -> "compute scaling factor"
      [] stage.cls = "Normalize" -> "normalize"
      [] stage.cls = "PadCoilDimension" /\ stage.key = "masked_kspace" ->
            "pad coil dimension (masked k-space)"
      [] stage.cls = "PadCoilDimension" /\ stage.key = "sensitivity_map" ->
            "pad coil dimension (sensitivity map)"
      [] stage.cls = "DeleteKeys" /\ stage.keys = <<"kspace">> -> "delete raw k-space"
      [] OTHER -> "other"

C3_Canonical ==
    <<"materialize", "crop", "padding-detect", "padding-apply", "mask-create",
      "sensitivity-map estimate", "delete ACS mask", "compute target image", "apply mask",
      "estimate body coil image", "compute scaling factor", "normalize",
      "pad coil dimension (masked k-space)", "pad coil dimension (sensitivity map)",
      "delete raw k-space">>

\* whether the flags c keep the optional stage of this role
C3_Kept(c, role) ==
    CASE role = "crop" -> c.crop # NoCrop
      [] role \in {"padding-detect", "padding-apply", "mask-create"} -> c.mask_func # None
      [] role = "delete ACS mask" -> c.delete_acs_mask
      [] role = "estimate body coil image" ->
            c.estimate_body_coil_image /\ c.mask_func # None
      [] role = "delete raw k-space" -> c.delete_kspace
      [] OTHER -> TRUE

RECURSIVE C3_KeepRoles(_, _)
C3_KeepRoles(c, roles) ==
    IF roles = << >> THEN << >>
    ELSE (IF C3_Kept(c, Head(roles)) THEN <<Head(roles)>> ELSE << >>) \o C3_KeepRoles(c, Tail(roles))

\* C3: for every combination of flags the built stage list is the canonical
\* sequence with exactly the optional stages the flags switch off removed.
C3_CanonicalOrder ==
    pc # "new" => [k \in 1..Len(transforms) |-> C3_Role(transforms[k])] = C3_KeepRoles(cfg, C3_Canonical)

C3_Witness ==
    /\ pc = "ready"
    /\ cfg.estimate_body_coil_image /\ cfg.mask_func = None
    /\ cfg.crop # NoCrop /\ cfg.delete_kspace /\ ~cfg.delete_acs_mask
    /\ Len(transforms) = 10

-----------------------------------------------------------------------------
(* Runs of built pipelines.                                                *)

\* the defaults of build_mri_transforms, for a given mask_func
DefaultCfg(mask) ==
    [mask_func |-> mask,
     crop |-> NoCrop,
     crop_type |-> "uniform",
     image_center_crop |-> TRUE,
     padding_eps |-> DefaultPaddingEps,
     estimate_sensitivity_maps |-> TRUE,
     estimate_body_coil_image |-> FALSE,
     sensitivity_maps_gaussian |-> None,
     delete_acs_mask |-> TRUE,
     delete_kspace |-> TRUE,
     image_recon_type |-> "rss",
     pad_coils |-> None,
     scaling_key |-> Some("masked_kspace"),
     scale_percentile |-> Some(Percentile(99, 100)),
     use_seed |-> TRUE]

\* a complex numpy array of shape sh: real and imaginary parts interleaved
ComplexArrays(sh, vals) == {Tensor(sh, d) : d \in [1..(2 * Prod(sh)) -> vals]}

\* the raw k-space arrays a dataset hands over: (coil, height, width)
RawKspaces ==
    {Tensor(<<2, 1, 1>>, <<d[1], d[2], d[3], 0>>) : d \in [1..3 -> 0..MaxVal]}
    \cup {Tensor(<<1, 1, 2>>, <<d[1], d[2], d[3], 0>>) : d \in [1..3 -> 0..MaxVal]}
    \cup {Tensor(<<2, 1, 2>>, <<d[1], 0, d[2], 0, d[3], 0, d[4], d[4]>>) :
             d \in [1..4 -> {0, MaxVal}]}

RunCfgs ==
    {[DefaultCfg(Some(mf)) EXCEPT
         !.estimate_sensitivity_maps = FALSE,
         !.padding_eps = eps,
         !.scaling_key = key,
         !.scale_percentile = pct,
         !.pad_coils = pad,
         !.delete_kspace = delk] :
        mf \in MaskFuncs, eps \in {DefaultPaddingEps, Eps(1, 1)},
        key \in {None, Some("masked_kspace")}, pct \in {None, Some(Percentile(1, 2))},
        pad \in {None, Some(3)}, delk \in BOOLEAN}

Init ==
    /\ cfg \in RunCfgs
    /\ transforms = << >>
    /\ pc = "new"
    /\ \E ks \in RawKspaces : Fresh("filename" :> DefaultFilename @@ "kspace" :> ks)

Spec == Init /\ [][Next]_vars

\* The case of C4: a built pipeline with a seeded (deterministic) mask
\* generator, unit sensitivity maps, "rss" targets and no crop has returned.
C4_Case ==
    /\ pc = "returned"
    /\ cfg.mask_func # None /\ cfg.use_seed
    /\ ~cfg.estimate_sensitivity_maps
    /\ cfg.image_recon_type = "rss"
    /\ cfg.crop = NoCrop

\* the original k-space as a tensor, and the mask the generator yields for it
C4_Original == to_tensor(sample0["kspace"])
C4_Generated ==
    mask_func(Val(cfg.mask_func), Tail(C4_Original.shape),
              Some(str(sample0["filename"])), FALSE, 0)

\* C4 as stated: the final target is the root-sum-of-squares of the
\* backward-projected original k-space and the final masked_kspace is the
\* original k-space times the generated mask.
C4_TargetIsRss ==
    C4_Case =>
        /\ Val(ret)["target"] = root_sum_of_squares(backward_operator(C4_Original))
        /\ Val(ret)["masked_kspace"] = Mul(C4_Original, C4_Generated)

\* C4 amended: the final target is the root-sum-of-squares of the
\* backward-projected k-space with the detected padding positions zeroed,
\* divided by the stored scaling factor when that factor is non-zero; the
\* final masked_kspace is the original k-space times the generated mask with
\* the padding positions zeroed, divided likewise, and preceded by zero
\* coils up to pad_coils when pad_coils exceeds the coil count.
C4_TargetIsNormalizedRss ==
    C4_Case =>
        LET final  == Val(ret)
            f      == final["scaling_factor"].data[1]
            Norm(x) == IF f # 0 THEN Quot(x, f) ELSE x
            keep   == Tensor(final["padding"].shape,
                             [n \in 1..Numel(final["padding"]) |-> 1 - final["padding"].data[n]])
            rss    == root_sum_of_squares(backward_operator(Mul(C4_Original, keep)))
            masked == Mul(Mul(C4_Original, C4_Generated), keep)
            coils  == C4_Original.shape[1]
            extra  == IF cfg.pad_coils # None /\ Val(cfg.pad_coils) > coils
                      THEN Val(cfg.pad_coils) - coils ELSE 0
        IN  /\ final["target"].shape = rss.shape
            /\ \A n \in 1..Numel(rss) : final["target"].data[n] = Norm(rss.data[n])
            /\ final["masked_kspace"].shape = <<coils + extra>> \o Tail(masked.shape)
            /\ \A n \in 1..Numel(final["masked_kspace"]) :
                  final["masked_kspace"].data[n] =
                      IF n <= extra * Prod(Tail(masked.shape)) THEN 0
                      ELSE Norm(masked.data[n - extra * Prod(Tail(masked.shape))])

C4_Witness ==
    /\ C4_Case
    /\ C4_Original.shape = <<2, 1, 2, 2>>
    /\ Val(ret)["scaling_factor"].data[1] >= 2
    /\ Val(ret)["target"] # root_sum_of_squares(backward_operator(C4_Original))
    /\ \E n \in 1..Numel(Val(ret)["target"]) : Val(ret)["target"].data[n] # 0
    /\ \E n \in 1..Numel(Val(ret)["masked_kspace"]) : Val(ret)["masked_kspace"].data[n] # 0

-----------------------------------------------------------------------------
(* Single stages called on free samples.                                   *)

Opt(S) == {None} \cup {Some(x) : x \in S}
With(smp, k, o) == IF IsNone(o) THEN smp ELSE Put(smp, k, Val(o))

\* a pipeline object holding one stage of the set, before its call on one
\* of the samples
InitStage(stages, samples) ==
    /\ cfg = NoCfg
    /\ transforms \in {<<st>> : st \in stages}
    /\ pc = "ready"
    /\ \E smp \in samples : Fresh(smp)

\* k-space tensors (coil, height, width, 2) and masks (1, height, width, 1)
SmallKspaces == {Tensor(<<1, 1, 2, 2>>, <<d[1], d[2], d[3], 0>>) : d \in [1..3 -> 0..MaxVal]}
SmallMasks == Tensors(<<1, 1, 2, 1>>, {0, 1})

MaskKeys == {"sampling_mask", "kspace", "masked_kspace"}

ApplyMaskStages == {ApplyMask(m, k, t) : m \in MaskKeys, k \in MaskKeys, t \in MaskKeys}

ApplyMaskSamples ==
    {With(With(With("filename" :> DefaultFilename, "kspace", ks), "sampling_mask", m),
          "masked_kspace", mk) :
        ks \in Opt(SmallKspaces), m \in Opt(SmallMasks),
        mk \in Opt({Tensor(<<1, 1, 2, 2>>, <<1, 1, 1, 1>>)})}

InitApplyMask == InitStage(ApplyMaskStages, ApplyMaskSamples)
SpecApplyMask == InitApplyMask /\ [][NextRun]_vars

\* C5: ApplyMask on a sample lacking the source k-space key or the mask key
\* raises an error naming the missing key (the source key when both are
\* missing) and leaves the sample exactly as it was.
C5_MissingKeyNamed ==
    \A k \in 1..Len(outputs) :
        LET st == calls[k]
            missing == IF ~Has(inputs[k], st.input_kspace_key) THEN st.input_kspace_key
                       ELSE st.sampling_mask_key
        IN  (st.cls = "ApplyMask"
             /\ (~Has(inputs[k], st.input_kspace_key) \/ ~Has(inputs[k], st.sampling_mask_key)))
            => /\ ~outputs[k].ok
               /\ outputs[k].err = Error("ValueError", missing)
               /\ outputs[k].sample = inputs[k]
               /\ sample = inputs[k]
               /\ pc = "raised" /\ err.key = missing

C5_Witness ==
    /\ pc = "raised"
    /\ calls[1].cls = "ApplyMask"
    /\ calls[1].input_kspace_key # calls[1].sampling_mask_key
    /\ ~Has(sample0, calls[1].input_kspace_key)
    /\ ~Has(sample0, calls[1].sampling_mask_key)
    /\ Has(sample0, calls[1].target_kspace_key)
    /\ err = Error("ValueError", calls[1].input_kspace_key)

\* the product source x mask, entry by entry
C6_IsProduct(t, source, mask) ==
    /\ t.shape = BroadcastShape(source, mask)
    /\ \A n \in 1..Numel(t) :
          t.data[n] = BAt(source, t.shape, n - 1) * BAt(mask, t.shape, n - 1)

\* a call of ApplyMask on a sample holding the source and mask keys returned
C6_Returned(k) ==
    /\ calls[k].cls = "ApplyMask"
    /\ Has(inputs[k], calls[k].input_kspace_key)
    /\ Has(inputs[k], calls[k].sampling_mask_key)
    /\ outputs[k].ok

\* C6 as stated: in every configuration the source key keeps its value, the
\* target key holds source x mask and every other key is unchanged.
C6_SourceUntouched ==
    \A k \in 1..Len(outputs) :
        C6_Returned(k) =>
            LET st == calls[k]
                before == inputs[k]
                after == outputs[k].sample
            IN  /\ after[st.input_kspace_key] = before[st.input_kspace_key]
                /\ C6_IsProduct(after[st.target_kspace_key], before[st.input_kspace_key],
                                before[st.sampling_mask_key])
                /\ DOMAIN after = DOMAIN before \cup {st.target_kspace_key}
                /\ \A key \in DOMAIN before \ {st.target_kspace_key} : after[key] = before[key]

\* C6 amended: the target key holds source x mask and every key other than
\* the target key is unchanged; the source key keeps its value whenever the
\* target key is a different key (when the two are the same key the source
\* is overwritten by the product).
C6_FrameOfApplyMask ==
    \A k \in 1..Len(outputs) :
        C6_Returned(k) =>
            LET st == calls[k]
                before == inputs[k]
                after == outputs[k].sample
            IN  /\ st.target_kspace_key # st.input_kspace_key =>
                      after[st.input_kspace_key] = before[st.input_kspace_key]
                /\ C6_IsProduct(after[st.target_kspace_key], before[st.input_kspace_key],
                                before[st.sampling_mask_key])
                /\ DOMAIN after = DOMAIN before \cup {st.target_kspace_key}
                /\ \A key \in DOMAIN before \ {st.target_kspace_key} : after[key] = before[key]
                /\ sample = after

C6_Witness ==
    /\ pc = "returned"
    /\ C6_Returned(1)
    /\ calls[1].target_kspace_key = calls[1].input_kspace_key
    /\ calls[1].sampling_mask_key # calls[1].input_kspace_key
    /\ sample[calls[1].input_kspace_key] # sample0[calls[1].input_kspace_key]
    /\ Has(sample0, "masked_kspace")

\* ComputeImage objects and the samples they are called on
ComputeImageStages ==
    {ComputeImage(k, t, ty) : k \in {"kspace", "masked_kspace"}, t \in {"target", "kspace"},
                              ty \in ReconstructionType}

ComputeImageSamples ==
    {With(With(With("filename" :> DefaultFilename, "kspace", ks), "sensitivity_map", sm),
          "target", tg) :
        ks \in Opt(SmallKspaces),
        sm \in Opt({Tensor(<<1, 1, 2, 2>>, <<1, 0, 1, 0>>), Tensor(<<1, 1, 2, 2>>, <<0, 1, 2, 0>>)}),
        tg \in Opt({Tensor(<<1, 2>>, <<1, 1>>)})}

SpecComputeImage == InitStage(ComputeImageStages, ComputeImageSamples) /\ [][NextRun]_vars

\* the image of the reconstruction types that use no sensitivity map
C7_Image(ty, kspace_data) ==
    LET image == backward_operator(kspace_data)
    IN  CASE ty = "rss" -> root_sum_of_squares(image)
          [] ty = "complex" -> SumCoil(image)
          [] ty = "complex_mod" -> modulus(SumCoil(image))

\* C7: on a sample holding the k-space key, ComputeImage with type sense or
\* sense_mod and no sensitivity_map field raises ItemNotFoundException and
\* leaves the sample, the target key included, as it was; with type rss,
\* complex or complex_mod it returns whether or not a sensitivity map is
\* present, with the target key holding the image and no other key changed.
C7_SenseNeedsMap ==
    \A k \in 1..Len(outputs) :
        LET st == calls[k]
            before == inputs[k]
            after == outputs[k].sample
        IN  (st.cls = "ComputeImage" /\ Has(before, st.kspace_key)) =>
              /\ (st.type_reconstruction \in {"sense", "sense_mod"}
                  /\ ~Has(before, "sensitivity_map")) =>
                    /\ ~outputs[k].ok
                    /\ outputs[k].err = Error("ItemNotFoundException", "sensitivity map")
                    /\ after = before
                    /\ sample = before /\ pc = "raised" /\ err = outputs[k].err
              /\ st.type_reconstruction \in {"rss", "complex", "complex_mod"} =>
                    /\ outputs[k].ok
                    /\ DOMAIN after = DOMAIN before \cup {st.target_key}
                    /\ after[st.target_key] =
                          C7_Image(st.type_reconstruction, before[st.kspace_key])
                    /\ \A key \in DOMAIN before \ {st.target_key} : after[key] = before[key]
                    /\ sample = after /\ pc # "raised"

C7_Witness ==
    /\ pc = "raised"
    /\ calls[1].cls = "ComputeImage"
    /\ calls[1].type_reconstruction = "sense_mod"
    /\ calls[1].target_key = "target"
    /\ Has(sample0, calls[1].kspace_key)
    /\ ~Has(sample0, "sensitivity_map")
    /\ Has(sample0, "target")
    /\ sample = sample0
    /\ err = Error("ItemNotFoundException", "sensitivity map")

\* Normalize objects and the samples they are called on: the factor is
\* absent, zero or non-zero
NormalizeStages ==
    {Normalize(sfk, keys) :
        sfk \in {"scaling_factor", "factor"},
        keys \in {None, Some({}), Some({"target"}), Some({"kspace", "scaling_factor", "factor"})}}

NormalizeSamples ==
    {With(With(With(With("filename" :> DefaultFilename, "scaling_factor", sf), "factor", f),
               "kspace", ks), "target", tg) :
        sf \in Opt({Scalar(v) : v \in 0..MaxVal}),
        f \in Opt({Scalar(0), Scalar(2)}),
        ks \in Opt({Tensor(<<1, 1, 2, 2>>, <<MaxVal, 1, 2, 0>>)}),
        tg \in Opt({Tensor(<<1, 2>>, <<2, MaxVal>>)})}

SpecNormalize == InitStage(NormalizeStages, NormalizeSamples) /\ [][NextRun]_vars

\* C8: when the scaling-factor field is absent from the sample or holds
\* zero, Normalize returns the sample with every field as it was and no
\* field added, and does not fail.
C8_SkipsOnAbsentOrZero ==
    \A k \in 1..Len(outputs) :
        LET st == calls[k]
            before == inputs[k]
        IN  (st.cls = "Normalize"
             /\ (~Has(before, st.scaling_factor_key)
                 \/ before[st.scaling_factor_key] = Scalar(0))) =>
              /\ outputs[k].ok
              /\ outputs[k].sample = before
              /\ sample = before
              /\ pc # "raised" /\ err = NoError

C8_Witness ==
    /\ pc = "returned"
    /\ calls[1].cls = "Normalize"
    /\ Has(sample0, calls[1].scaling_factor_key)
    /\ sample0[calls[1].scaling_factor_key] = Scalar(0)
    /\ calls[1].scaling_factor_key \in calls[1].keys_to_normalize
    /\ "kspace" \in calls[1].keys_to_normalize /\ Has(sample0, "kspace")
    /\ ret = Some(sample0)

\* ComputeScalingFactor objects and the samples they are called on. The
\* percentiles are the fractions num/2^e strictly between 0 and 1, and 0.
Percentiles ==
    {q \in {Percentile(num, Pow2(e)) : e \in 1..MaxExp, num \in 1..Pow2(MaxExp)} :
        q.num < q.den}

ScalingFactorStages ==
    {ComputeScalingFactor(nk, pct, sfk) :
        nk \in {None, Some(""), Some("scaling_factor"), Some("kspace")},
        pct \in {None, Some(Percentile(0, 1))} \cup {Some(q) : q \in Percentiles},
        sfk \in {"scaling_factor", "factor"}}

\* a source field of n complex entries holding the given real parts
Magnitudes(n) == {Tensor(<<n, 2>>, [m \in 1..(2 * n) |-> IF m % 2 = 1 THEN d[(m + 1) \div 2] ELSE 0]) :
                     d \in [1..n -> 0..MaxVal]}

ScalingFactorSamples ==
    {With(With("filename" :> DefaultFilename, "kspace", ks), "scaling_factor", sf) :
        ks \in Opt(UNION {Magnitudes(n) : n \in 1..MaxLen}),
        sf \in Opt({Scalar(MaxVal + 1)})}

SpecScalingFactor == InitStage(ScalingFactorStages, ScalingFactorSamples) /\ [][NextRun]_vars

\* a call of ComputeScalingFactor with a percentile strictly between 0 and 1
\* on a source field that is present
C9_Case(k) ==
    /\ calls[k].cls = "ComputeScalingFactor"
    /\ ~IsNone(calls[k].normalize_key)
    /\ Val(calls[k].normalize_key) \notin {"", "scaling_factor"}
    /\ Has(inputs[k], Val(calls[k].normalize_key))
    /\ ~IsNone(calls[k].percentile)
    /\ 0 < Val(calls[k].percentile).num
    /\ Val(calls[k].percentile).num < Val(calls[k].percentile).den

\* v is the rank-th largest of the magnitudes (rank 1 being the maximum)
C9_IsRankFromTop(mods, v, rank) ==
    /\ \E n \in 1..Len(mods) : mods[n] = v
    /\ Cardinality({n \in 1..Len(mods) : mods[n] > v}) < rank
    /\ rank <= Cardinality({n \in 1..Len(mods) : mods[n] >= v})

\* the call stored the magnitude of the given rank
C9_Stored(k, rank) ==
    /\ outputs[k].ok
    /\ outputs[k].sample[calls[k].scaling_factor_key].shape = << >>
    /\ C9_IsRankFromTop(modulus(inputs[k][Val(calls[k].normalize_key)]).data,
                        outputs[k].sample[calls[k].scaling_factor_key].data[1], rank)

\* C9 as stated: with percentile p and N magnitudes the stored factor is the
\* magnitude of rank ceiling((1 - p) * N) from the top.
C9_RankIsCeiling ==
    \A k \in 1..Len(outputs) :
        C9_Case(k) =>
            LET p == Val(calls[k].percentile)
                N == Numel(inputs[k][Val(calls[k].normalize_key)]) \div 2
            IN  C9_Stored(k, ((p.den - p.num) * N + p.den - 1) \div p.den)

\* C9 amended: with percentile p and N magnitudes the stored factor is the
\* magnitude of rank floor((1 - p) * N) + 1 from the top, which is the rank
\* ceiling((1 - p) * N) exactly when (1 - p) * N is not an integer.
C9_RankIsFloorPlusOne ==
    \A k \in 1..Len(outputs) :
        C9_Case(k) =>
            LET p == Val(calls[k].percentile)
                N == Numel(inputs[k][Val(calls[k].normalize_key)]) \div 2
                rank == ((p.den - p.num) * N) \div p.den + 1
            IN  /\ C9_Stored(k, rank)
                /\ ((p.den - p.num) * N) % p.den # 0 =>
                      rank = ((p.den - p.num) * N + p.den - 1) \div p.den
                /\ sample = outputs[k].sample

C9_Witness ==
    /\ pc = "returned"
    /\ C9_Case(1)
    /\ calls[1].percentile = Some(Percentile(1, 2))
    /\ calls[1].scaling_factor_key = "factor"
    /\ sample0["kspace"] = Tensor(<<2, 2>>, <<1, 0, 2, 0>>)
    /\ sample["factor"] = Scalar(1)

\* C10: ComputeScalingFactor, called on a sample that holds the key it reads,
\* returns with the scaling-factor key written and no other key changed: the
\* value stored under "scaling_factor" when that is the source key, 1 when no
\* source key is configured, and with no percentile the largest magnitude of
\* the source field.
C10_FactorBySource ==
    \A k \in 1..Len(outputs) :
        LET st == calls[k]
            before == inputs[k]
            after == outputs[k].sample
            reads == IF st.normalize_key = Some("scaling_factor") THEN {"scaling_factor"}
                     ELSE IF IsNone(st.normalize_key) \/ st.normalize_key = Some("") THEN {}
                     ELSE {Val(st.normalize_key)}
        IN  (st.cls = "ComputeScalingFactor" /\ reads \subseteq DOMAIN before) =>
              /\ outputs[k].ok /\ pc # "raised" /\ sample = after
              /\ DOMAIN after = DOMAIN before \cup {st.scaling_factor_key}
              /\ \A key \in DOMAIN before \ {st.scaling_factor_key} : after[key] = before[key]
              /\ st.normalize_key = Some("scaling_factor") =>
                    after[st.scaling_factor_key] = before["scaling_factor"]
              /\ reads = {} => after[st.scaling_factor_key] = Scalar(1)
              /\ (reads \notin {{}, {"scaling_factor"}}
                  /\ (IsNone(st.percentile) \/ Val(st.percentile).num = 0)) =>
                    LET mods == modulus(before[Val(st.normalize_key)]).data
                        v == after[st.scaling_factor_key]
                    IN  /\ v.shape = << >>
                        /\ \E n \in 1..Len(mods) : mods[n] = v.data[1]
                        /\ \A n \in 1..Len(mods) : mods[n] <= v.data[1]

C10_Witness ==
    /\ pc = "returned"
    /\ calls[1].cls = "ComputeScalingFactor"
    /\ calls[1].normalize_key = Some("scaling_factor")
    /\ calls[1].scaling_factor_key = "factor"
    /\ Has(sample0, "scaling_factor") /\ ~Has(sample0, "factor") /\ Has(sample0, "kspace")
    /\ sample["factor"] = sample0["scaling_factor"]
    /\ sample["scaling_factor"] = sample0["scaling_factor"]

\* a pipeline object holding one stage of the set once or twice, before its
\* call on one of the samples
InitRepeat(stages, samples) ==
    /\ cfg = NoCfg
    /\ transforms \in {<<st>> : st \in stages} \cup {<<st, st>> : st \in stages}
    /\ pc = "ready"
    /\ \E smp \in samples : Fresh(smp)

\* PadCoilDimension objects (no target, or a target from 0 up to one more
\* than the most coils) and the samples they are called on
PadCoilStages ==
    {PadCoilDimension(n, key) : n \in Opt(0..(MaxCoils + 1)),
                                key \in {"masked_kspace", "sensitivity_map"}}

PadCoilSamples ==
    {With(With(With(<< >>, "filename", fn), "masked_kspace", mk), "sensitivity_map", sm) :
        fn \in Opt({DefaultFilename}), mk \in Opt(UNION {Tensors(<<c, 1, 1, 2>>, 0..MaxVal) : c \in 1..MaxCoils}),
        sm \in Opt({Tensor(<<1, 1, 1, 2>>, <<1, MaxVal>>)})}

SpecPadCoils == InitRepeat(PadCoilStages, PadCoilSamples) /\ [][NextRun]_vars

\* a call of PadCoilDimension with a target on a sample holding its key
C11_Case(k) ==
    /\ calls[k].cls = "PadCoilDimension"
    /\ ~IsNone(calls[k].num_coils)
    /\ Has(inputs[k], calls[k].key)

\* C11: for a field with c coils and a target n > c, PadCoilDimension returns
\* the field with n coil slots, the first n - c all zero and the last c the
\* original data in order, every other field unchanged; a second call of the
\* same stage changes nothing.
C11_PadsInFront ==
    \A k \in 1..Len(outputs) :
        LET st == calls[k]
            before == inputs[k]
            after == outputs[k].sample
        IN  /\ (C11_Case(k) /\ Val(st.num_coils) > before[st.key].shape[1]) =>
                  LET n == Val(st.num_coils)
                      c == before[st.key].shape[1]
                      slot == Prod(Tail(before[st.key].shape))
                  IN  /\ outputs[k].ok
                      /\ DOMAIN after = DOMAIN before
                      /\ after[st.key].shape = <<n>> \o Tail(before[st.key].shape)
                      /\ Len(after[st.key].data) = n * slot
                      /\ \A m \in 1..((n - c) * slot) : after[st.key].data[m] = 0
                      /\ \A m \in 1..(c * slot) :
                            after[st.key].data[(n - c) * slot + m] = before[st.key].data[m]
                      /\ \A key \in DOMAIN before \ {st.key} : after[key] = before[key]
            /\ (k > 1 /\ C11_Case(k - 1) /\ calls[k] = calls[k - 1]
                /\ Val(st.num_coils) > inputs[k - 1][st.key].shape[1]) =>
                  /\ outputs[k].ok
                  /\ after = outputs[k - 1].sample

C11_Witness ==
    /\ pc = "returned"
    /\ Len(calls) = 2
    /\ C11_Case(1)
    /\ calls[1].key = "masked_kspace"
    /\ calls[1].num_coils = Some(MaxCoils + 1)
    /\ sample0["masked_kspace"].shape[1] = 1
    /\ sample0["masked_kspace"].data = <<1, MaxVal>>
    /\ Has(sample0, "sensitivity_map")
    /\ sample["masked_kspace"].shape[1] = MaxCoils + 1

\* C12 as stated: PadCoilDimension raises the capacity error, leaving the
\* sample unchanged, on every call whose target (any integer, 0 included) is
\* smaller than the field's coil count; it returns the sample unchanged when
\* the target equals the count or no target is set.
C12_FailsBelowCount ==
    \A k \in 1..Len(outputs) :
        LET st == calls[k]
            before == inputs[k]
        IN  /\ (C11_Case(k) /\ Val(st.num_coils) < before[st.key].shape[1]) =>
                  /\ ~outputs[k].ok
                  /\ outputs[k].err = Error("ValueError", "pad_coils")
                  /\ outputs[k].sample = before
            /\ (st.cls = "PadCoilDimension"
                /\ (IsNone(st.num_coils)
                    \/ (Has(before, st.key) /\ Val(st.num_coils) = before[st.key].shape[1]))) =>
                  /\ outputs[k].ok
                  /\ outputs[k].sample = before

\* DeleteKeys and RenameKeys objects over a few key names, one of them
\* ("other") never in a sample, and the samples they are called on
KeyStages ==
    {DeleteKeys(keys) : keys \in SeqsUpTo({"kspace", "acs_mask", "other"}, 2)}
    \cup {RenameKeys(old_keys, new_keys) :
             old_keys \in SeqsUpTo({"kspace", "acs_mask", "other"}, 2),
             new_keys \in SeqsUpTo({"kspace", "target", "other"}, 2)}

KeySamples ==
    {With(With(With("filename" :> DefaultFilename, "kspace", ks), "acs_mask", am), "target", tg) :
        ks \in Opt({Scalar(1)}), am \in Opt({Scalar(2)}), tg \in Opt({Scalar(MaxVal + 1)})}

SpecKeys == InitStage(KeyStages, KeySamples) /\ [][NextRun]_vars

\* the old keys RenameKeys pairs with a new key
C13_Paired(st) == {st.old_keys[n] : n \in 1..Min(Len(st.old_keys), Len(st.new_keys))}

\* C13: DeleteKeys and RenameKeys return for every sample and key list,
\* whether or not the named keys are present; DeleteKeys removes exactly the
\* named keys that are present, and when none of the named (old) keys is
\* present the sample comes back with the same keys and values.
C13_AbsentKeysSkipped ==
    \A k \in 1..Len(outputs) :
        LET st == calls[k]
            before == inputs[k]
            after == outputs[k].sample
        IN  /\ st.cls = "DeleteKeys" =>
                  LET named == {st.keys[n] : n \in 1..Len(st.keys)}
                  IN  /\ outputs[k].ok /\ pc # "raised"
                      /\ DOMAIN after = DOMAIN before \ named
                      /\ \A key \in DOMAIN after : after[key] = before[key]
                      /\ named \cap DOMAIN before = {} => after = before
            /\ st.cls = "RenameKeys" =>
                  /\ outputs[k].ok /\ pc # "raised"
                  /\ C13_Paired(st) \cap DOMAIN before = {} => after = before

C13_Witness ==
    /\ pc = "returned"
    /\ calls[1].cls = "DeleteKeys"
    /\ calls[1].keys = <<"other", "kspace">>
    /\ Has(sample0, "kspace") /\ Has(sample0, "acs_mask")
    /\ ~Has(sample, "kspace") /\ Has(sample, "acs_mask")

-----------------------------------------------------------------------------
(* Built pipelines over the builder's switches, run on samples with        *)
(* different filenames, with and without masks of their own.               *)

\* the first family varies seeding and cropping under a mask generator, the
\* second the mask function, the estimations and the deletions
RunsCfgs ==
    {[DefaultCfg(Some([sampling |-> 1, acs |-> 3])) EXCEPT
         !.crop = crop, !.image_center_crop = center, !.estimate_sensitivity_maps = sens,
         !.estimate_body_coil_image = body, !.use_seed = seed,
         !.scale_percentile = None] :
        crop \in {NoCrop, CropShape(<<1, 1>>)}, center \in BOOLEAN, sens \in BOOLEAN,
        body \in BOOLEAN, seed \in BOOLEAN}
    \cup
    {[DefaultCfg(mask) EXCEPT
         !.estimate_sensitivity_maps = sens, !.estimate_body_coil_image = body,
         !.delete_acs_mask = dela, !.delete_kspace = delk, !.scale_percentile = None] :
        mask \in Opt(MaskFuncs), sens \in BOOLEAN, body \in BOOLEAN, dela \in BOOLEAN,
        delk \in BOOLEAN}

RunsSamples ==
    {With(With("filename" :> Filename(fn) @@ "kspace" :> ks, "sampling_mask", sm), "acs_mask", am) :
        fn \in {<<97>>, <<97, 98>>},
        ks \in {Tensor(<<1, 1, 2>>, <<1, 0, 0, 0>>), Tensor(<<1, 1, 2>>, <<1, 1, MaxVal, 0>>),
                Tensor(<<2, 1, 2>>, <<MaxVal, 0, 0, 0, 0, 1, 0, 0>>),
                Tensor(<<2, 1, 2>>, <<1, 0, MaxVal, 0, 0, 0, 1, 0>>)},
        sm \in Opt({Tensor(<<1, 1, 2, 1>>, <<1, 0>>)}),
        am \in Opt({Tensor(<<1, 1, 2, 1>>, <<0, 1>>)})}

SpecRuns ==
    /\ cfg \in RunsCfgs /\ transforms = << >> /\ pc = "new"
    /\ \E smp \in RunsSamples : Fresh(smp)
    /\ [][Next]_vars

\* the seeds handed to the mask generator and to the random cropper by the
\* k-th stage call
C14_Seeds(k) ==
    {outputs[k].requests[n].seed : n \in {m \in 1..Len(outputs[k].requests) :
        outputs[k].requests[m].fn \in {"mask_func", "complex_random_crop"}}}

\* C14: in a run of a built pipeline every seed handed to the mask generator
\* or to the random cropper is, with seeding enabled, the tuple of character
\* codes of the sample's filename - the same in every stage of the run,
\* whatever the other fields hold, and different for different filenames -
\* and with seeding disabled it is None.
C14_SeedFromFilename ==
    /\ \A k \in 1..Len(outputs) : \A seed \in C14_Seeds(k) :
          seed = IF cfg.use_seed THEN Some(sample0["filename"].chars) ELSE None
    /\ \A smp \in RunsSamples :
          smp["filename"] # sample0["filename"] => Seed(TRUE, smp) # Seed(TRUE, sample0)

C14_Witness ==
    /\ pc = "returned"
    /\ cfg.use_seed
    /\ sample0["filename"] = Filename(<<97, 98>>)
    /\ Has(sample0, "sampling_mask")
    /\ \E a, b, c \in 1..Len(calls) :
          /\ calls[a].cls = "CropKspace" /\ C14_Seeds(a) = {Some(<<97, 98>>)}
          /\ calls[b].cls = "CreateSamplingMask" /\ Len(outputs[b].requests) = 2
          /\ C14_Seeds(b) = {Some(<<97, 98>>)}
          /\ calls[c].cls = "EstimateBodyCoilImage" /\ C14_Seeds(c) = {Some(<<97, 98>>)}

-----------------------------------------------------------------------------
(* Two calls in progress on one built pipeline object, each on its own     *)
(* sample: every interleaving of their stage calls.                        *)

SpecShared ==
    /\ cfg \in {c \in RunsCfgs : c.crop = NoCrop /\ c.image_center_crop
                                 /\ ~c.estimate_body_coil_image
                                 /\ c.delete_acs_mask /\ c.delete_kspace
                                 /\ (c.use_seed \/ ~c.estimate_sensitivity_maps)}
    /\ transforms = build_mri_transforms(cfg)
    /\ pc = "ready"
    /\ \E smp \in {s \in RunsSamples : s["filename"] = Filename(<<97>>)
                                       /\ s["kspace"].shape = <<1, 1, 2>>
                                       /\ Has(s, "acs_mask") = Has(s, "sampling_mask")} :
          /\ sample = smp /\ sample0 = smp
    /\ \E smp \in {s \in RunsSamples : s["filename"] = Filename(<<97, 98>>)
                                       /\ s["kspace"].shape = <<2, 1, 2>>
                                       /\ Has(s, "acs_mask") = Has(s, "sampling_mask")} :
          other = [NoRun EXCEPT !.pc = "ready", !.sample = smp, !.sample0 = smp]
    /\ i = 0 /\ calls = << >> /\ inputs = << >> /\ outputs = << >>
    /\ err = NoError /\ ret = None
    /\ [][Call \/ StageCall \/ Return \/ CallOther \/ StageCallOther \/ ReturnOther]_vars

\* the ways a call of the stage list ts on the sample smp can end when it
\* runs alone
RECURSIVE C15_Alone(_, _)
C15_Alone(ts, smp) ==
    IF ts = << >> THEN {[pc |-> "returned", sample |-> smp, err |-> NoError]}
    ELSE UNION {LET res == Apply(Head(ts), smp, r)
                IN  IF res.ok THEN C15_Alone(Tail(ts), res.sample)
                    ELSE {[pc |-> "raised", sample |-> res.sample, err |-> res.err]} :
                r \in Draws(Head(ts))}

\* C15: of two calls that share a Compose object and its stages and work on
\* distinct samples, in every interleaving of their stage calls each ends -
\* with its final sample or with its failure - in a way it can end when it
\* runs alone, and the shared stage list is never written.
C15_NoInterference ==
    /\ pc \in {"returned", "raised"} =>
          [pc |-> pc, sample |-> sample, err |-> err] \in C15_Alone(transforms, sample0)
    /\ other.pc \in {"returned", "raised"} =>
          [pc |-> other.pc, sample |-> other.sample, err |-> other.err]
              \in C15_Alone(transforms, other.sample0)
    /\ other.pc # "none" => transforms = build_mri_transforms(cfg)

C15_Witness ==
    /\ pc = "returned"
    /\ other.pc = "returned"
    /\ sample0 # other.sample0
    /\ sample # other.sample
    /\ Has(sample, "masked_kspace") /\ Has(other.sample, "masked_kspace")
    /\ sample["masked_kspace"].shape[1] = 1 /\ other.sample["masked_kspace"].shape[1] = 2

\* the k-th stage call is the builder's deletion of the key and has returned
C16_Deleted(k, key) == calls[k] = DeleteKeys(<<key>>) /\ outputs[k].ok

\* C16: in a run of a built pipeline, once the delete stage for acs_mask
\* (for kspace) has returned, the key is absent from the sample after it and
\* after every later stage call, so a run that returns with delete_acs_mask
\* (delete_kspace) set ends without acs_mask (kspace).
C16_DeletionIsFinal ==
    /\ \A key \in {"acs_mask", "kspace"} : \A k \in 1..Len(outputs) :
          C16_Deleted(k, key) =>
              /\ \A j \in k..Len(outputs) : ~Has(outputs[j].sample, key)
              /\ ~Has(sample, key)
    /\ pc = "returned" =>
          /\ cfg.delete_acs_mask => (~Has(sample, "acs_mask") /\ ~Has(Val(ret), "acs_mask"))
          /\ cfg.delete_kspace => (~Has(sample, "kspace") /\ ~Has(Val(ret), "kspace"))

C16_Witness ==
    /\ pc = "returned"
    /\ cfg.delete_acs_mask /\ cfg.delete_kspace
    /\ cfg.estimate_body_coil_image /\ cfg.estimate_sensitivity_maps
    /\ ~IsNone(cfg.mask_func)
    /\ Has(sample0, "acs_mask")
    /\ \E k \in 1..Len(calls) : C16_Deleted(k, "acs_mask") /\ Has(inputs[k], "acs_mask")
    /\ \E k \in 1..Len(calls) : calls[k].cls = "EstimateBodyCoilImage"
    /\ ~Has(sample, "acs_mask") /\ ~Has(sample, "kspace")

\* ApplyMask followed by ApplyMask on its own output with the same mask,
\* into a key of its own or in place, on samples with a binary mask
SpecApplyMaskTwice ==
    /\ cfg = NoCfg
    /\ transforms \in {<<ApplyMask("sampling_mask", "kspace", t), ApplyMask("sampling_mask", t, t)>> :
                          t \in {"kspace", "masked_kspace"}}
    /\ pc = "ready"
    /\ \E ks \in SmallKspaces \cup Tensors(<<2, 1, 1, 2>>, {0, MaxVal}), m \in SmallMasks :
          Fresh("filename" :> DefaultFilename @@ "kspace" :> ks @@ "sampling_mask" :> m)
    /\ [][NextRun]_vars

\* C17: ApplyMask run on its own output with the same binary mask leaves the
\* masked k-space as the first application left it, and after every
\* ApplyMask the masked k-space is zero wherever the mask is zero.
C17_MaskIdempotent ==
    /\ \A k \in 1..Len(outputs) :
          LET st == calls[k]
              t == outputs[k].sample[st.target_kspace_key]
              mask == inputs[k][st.sampling_mask_key]
          IN  st.cls = "ApplyMask" =>
                /\ outputs[k].ok
                /\ \A n \in 1..Numel(t) : BAt(mask, t.shape, n - 1) = 0 => t.data[n] = 0
    /\ Len(outputs) = 2 =>
          /\ calls[2].input_kspace_key = calls[1].target_kspace_key
          /\ inputs[2][calls[2].sampling_mask_key] = inputs[1][calls[1].sampling_mask_key]
          /\ outputs[2].sample[calls[2].target_kspace_key]
                = outputs[1].sample[calls[1].target_kspace_key]
          /\ sample = outputs[1].sample

C17_Witness ==
    /\ pc = "returned"
    /\ Len(outputs) = 2
    /\ calls[2].input_kspace_key = "masked_kspace"
    /\ sample0["sampling_mask"].data = <<1, 0>>
    /\ sample0["kspace"].data = <<1, MaxVal, MaxVal, 0>>
    /\ sample["masked_kspace"].data = <<1, MaxVal, 0, 0>>

\* CreateSamplingMask objects - mask shape unset, fixed or partly fixed,
\* seeded or not, with or without the ACS mask - and the samples they are
\* called on
SpecCreateMask ==
    /\ cfg = NoCfg
    /\ transforms \in
          {<<CreateSamplingMask(mf, shape, use_seed, return_acs)>> :
              mf \in MaskFuncs,
              shape \in {None, Some(<< >>), Some(<<Some(1), Some(1)>>), Some(<<None, Some(1)>>)},
              use_seed \in BOOLEAN, return_acs \in BOOLEAN}
    /\ pc = "ready"
    /\ \E fn \in {<<97>>, <<97, 98>>},
          ks \in Opt({Tensor(<<1, 1, 2, 2>>, <<1, 0, MaxVal, 1>>),
                      Tensor(<<2, 1, 2, 2>>, <<1, 0, 0, 0, 0, MaxVal, 0, 0>>)}),
          pd \in Opt({Tensor(<<1, 1, 2, 1>>, <<0, 1>>)}),
          am \in Opt({Tensor(<<1, 1, 2, 1>>, <<1, 1>>)}) :
          Fresh(With(With(With("filename" :> Filename(fn), "kspace", ks), "padding", pd),
                     "acs_mask", am))
    /\ [][NextRun]_vars

\* C18: called on a sample holding kspace and filename, CreateSamplingMask
\* first asks the mask generator for the primary mask with return_acs false;
\* with ACS generation enabled it asks exactly once more, with return_acs
\* true, the same seed and the shape of the sample's k-space beyond the coil
\* axis, whatever mask shape is configured, and stores the answer as
\* acs_mask; without it acs_mask is not written; sampling_mask is always
\* written.
C18_MaskRequests ==
    \A k \in 1..Len(outputs) :
        LET st == calls[k]
            before == inputs[k]
            after == outputs[k].sample
            asked == outputs[k].requests
        IN  (st.cls = "CreateSamplingMask" /\ Has(before, "kspace") /\ Has(before, "filename")) =>
              /\ outputs[k].ok
              /\ Has(after, "sampling_mask")
              /\ Len(asked) = IF st.return_acs THEN 2 ELSE 1
              /\ \A n \in 1..Len(asked) : asked[n].fn = "mask_func"
              /\ ~asked[1].return_acs
              /\ st.return_acs =>
                    /\ asked[2].return_acs
                    /\ asked[2].seed = asked[1].seed
                    /\ asked[2].shape = Tail(before["kspace"].shape)
                    /\ Has(after, "acs_mask")
                    /\ after["acs_mask"].shape = <<1>> \o SubSeq(before["kspace"].shape, 2, 3) \o <<1>>
              /\ ~st.return_acs =>
                    /\ Has(after, "acs_mask") = Has(before, "acs_mask")
                    /\ Has(before, "acs_mask") => after["acs_mask"] = before["acs_mask"]
              /\ \A key \in DOMAIN before \ {"sampling_mask", "acs_mask"} : after[key] = before[key]

C18_Witness ==
    /\ pc = "returned"
    /\ calls[1].cls = "CreateSamplingMask"
    /\ calls[1].return_acs /\ calls[1].use_seed
    /\ calls[1].shape = Some(<<Some(1), Some(1)>>)
    /\ Has(sample0, "acs_mask") /\ Has(sample0, "padding")
    /\ outputs[1].requests[1].shape = <<1, 1, 2>>
    /\ outputs[1].requests[2].shape = <<1, 2, 2>>
    /\ outputs[1].requests[2].seed = Some(<<97, 98>>)
    /\ sample["acs_mask"] # sample0["acs_mask"]

\* the field is zero, in every coil and both complex parts, at every
\* position the padding flags
C19_ZeroAtPadding(t, padding) ==
    \A n \in 1..Numel(t) : BAt(padding, t.shape, n - 1) = 1 => t.data[n] = 0

\* a stage of the class has returned in this run
C19_Done(cls) == \E k \in 1..Len(outputs) : calls[k].cls = cls /\ outputs[k].ok

\* C19: in a run of a built pipeline with a mask function, at every position
\* that padding detection flagged, the k-space is zero from padding
\* application on (while it is kept), the stored sampling mask is zero from
\* mask creation on, and masked_kspace is zero in every coil from mask
\* application on, up to the end of the run; the flags themselves stay as
\* detected.
C19_PaddingStaysZero ==
    (~IsNone(cfg.mask_func) /\ C19_Done("ComputeZeroPadding")) =>
        LET padding == sample["padding"]
        IN  /\ \A k \in 1..Len(outputs) :
                  (calls[k].cls = "ComputeZeroPadding" /\ outputs[k].ok) =>
                      \A j \in k..Len(outputs) : outputs[j].sample["padding"] = padding
            /\ (C19_Done("ApplyZeroPadding") /\ Has(sample, "kspace")) =>
                  C19_ZeroAtPadding(sample["kspace"], padding)
            /\ C19_Done("CreateSamplingMask") =>
                  C19_ZeroAtPadding(sample["sampling_mask"], padding)
            /\ C19_Done("ApplyMask") =>
                  C19_ZeroAtPadding(sample["masked_kspace"], padding)

C19_Witness ==
    /\ pc = "returned"
    /\ ~IsNone(cfg.mask_func)
    /\ ~cfg.delete_kspace
    /\ C19_Done("ApplyMask")
    /\ sample0["kspace"].shape = <<2, 1, 2>>
    /\ sample["padding"].data = <<0, 1>>
    /\ sample["masked_kspace"].data # [n \in 1..8 |-> 0]
    /\ Has(sample0, "sampling_mask") /\ sample0["sampling_mask"].data = <<1, 0>>

\* a run of a pipeline built without a mask function has ended
C20_Ended == IsNone(cfg.mask_func) /\ pc \in {"returned", "raised"}

\* the run was ended by the mask-application stage raising its error for
\* the missing sampling_mask key
C20_FailedAtApplyMask ==
    /\ pc = "raised"
    /\ calls[Len(calls)].cls = "ApplyMask"
    /\ err = Error("ValueError", "sampling_mask")

\* the run completes only on a sample that brings sampling_mask, and
\* acs_mask too when sensitivity estimation is enabled
C20_CompletesOnlyWithMasks ==
    (C20_Ended /\ pc = "returned") =>
        /\ Has(sample0, "sampling_mask")
        /\ cfg.estimate_sensitivity_maps => Has(sample0, "acs_mask")

\* C20 as stated: a pipeline built without a mask function contains the
\* mask-application stage, and its run on a sample without sampling_mask
\* always fails at mask application with the missing-key error.
C20_AlwaysFailsAtApplyMask ==
    /\ (IsNone(cfg.mask_func) /\ pc # "new") =>
          \E n \in 1..Len(transforms) : transforms[n].cls = "ApplyMask"
    /\ (C20_Ended /\ ~Has(sample0, "sampling_mask")) => C20_FailedAtApplyMask
    /\ C20_CompletesOnlyWithMasks

\* C20 amended: the run on a sample without sampling_mask always fails - at
\* mask application with the missing-key error when sensitivity estimation
\* is disabled or the sample brings acs_mask, and before it, at
\* sensitivity-map estimation with a KeyError for acs_mask, when sensitivity
\* estimation is enabled and the sample brings no acs_mask.
C20_FailsWithoutMask ==
    /\ (IsNone(cfg.mask_func) /\ pc # "new") =>
          \E n \in 1..Len(transforms) : transforms[n].cls = "ApplyMask"
    /\ (C20_Ended /\ ~Has(sample0, "sampling_mask")) =>
          IF cfg.estimate_sensitivity_maps /\ ~Has(sample0, "acs_mask")
          THEN /\ pc = "raised"
               /\ calls[Len(calls)].cls = "EstimateSensitivityMap"
               /\ err = Error("KeyError", "acs_mask")
               /\ \A k \in 1..Len(calls) : calls[k].cls # "ApplyMask"
          ELSE C20_FailedAtApplyMask
    /\ C20_CompletesOnlyWithMasks

C20_Witness ==
    /\ C20_Ended
    /\ cfg.estimate_sensitivity_maps
    /\ ~Has(sample0, "sampling_mask") /\ ~Has(sample0, "acs_mask")
    /\ pc = "raised"
    /\ err = Error("KeyError", "acs_mask")

-----------------------------------------------------------------------------
(* Pipelines of writing, overwriting, renaming and deleting stages that    *)
(* can fail part-way through the list.                                     *)

SpecPartial ==
    /\ cfg = NoCfg
    /\ transforms \in
          SeqsUpTo({DeleteKeys(<<"kspace">>),
                    RenameKeys(<<"kspace">>, <<"initial_kspace">>),
                    ApplyMask("sampling_mask", "kspace", "kspace"),
                    EstimateSensitivityMap("kspace", "unit", None),
                    ComputeImage("kspace", "target", "sense"),
                    CreateSamplingMask([sampling |-> 2, acs |-> 1],
                                       Some(<<Some(1), Some(1)>>), TRUE, TRUE)},
                   MaxStages)
    /\ pc = "ready"
    /\ \E smp \in ComposeSamples : Fresh(smp)
    /\ [][NextRun]_vars

\* the sample as stages 1..k-1 left it: each stage was handed what the
\* stage before it returned, the first the caller's sample
C21_KeptSoFar(k) ==
    /\ inputs[1] = sample0
    /\ \A j \in 1..(k - 1) :
          /\ outputs[j] = Apply(calls[j], inputs[j], NoDraw)
          /\ inputs[j + 1] = outputs[j].sample

\* C21 as stated: when stage k fails, the caller's sample holds every write,
\* overwrite and deletion of stages 1..k-1 and none of stage k; it is not
\* put back as it was before the run.
C21_NoWriteOfFailingStage ==
    pc = "raised" =>
        /\ C21_KeptSoFar(Len(calls))
        /\ sample = inputs[Len(inputs)]

\* C21 amended: when stage k fails, the caller's sample is the sample as
\* stages 1..k-1 left it, together with what stage k itself wrote before it
\* raised: CreateSamplingMask that fails reading kspace for the ACS mask has
\* already stored sampling_mask; the other stages raise before any write.
C21_NoRollback ==
    pc = "raised" =>
        LET k == Len(calls)
            wrote == calls[k].cls = "CreateSamplingMask" /\ err = Error("KeyError", "kspace")
        IN  /\ C21_KeptSoFar(k)
            /\ ~wrote => sample = inputs[k]
            /\ wrote =>
                  /\ DOMAIN sample = DOMAIN inputs[k] \cup {"sampling_mask"}
                  /\ \A key \in DOMAIN inputs[k] \ {"sampling_mask"} : sample[key] = inputs[k][key]
                  /\ sample["sampling_mask"] =
                        mask_func(calls[k].mask_func, <<1, 1, 2>>, Seed(TRUE, inputs[k]), FALSE, 0)

C21_Witness ==
    /\ pc = "raised"
    /\ Len(calls) = 3
    /\ calls[1].cls = "EstimateSensitivityMap"
    /\ calls[2].cls = "DeleteKeys"
    /\ calls[3].cls = "CreateSamplingMask"
    /\ Has(sample0, "kspace") /\ ~Has(sample0, "sampling_mask")
    /\ Has(sample, "sensitivity_map") /\ ~Has(sample, "kspace")
    /\ Has(sample, "sampling_mask")
    /\ sample # inputs[3] /\ sample # sample0

\* ComputeImage objects whose type is one of the five or some other string
SpecComputeImageAnyType ==
    /\ InitStage({ComputeImage("kspace", "target", ty) :
                     ty \in ReconstructionType \cup {"", "sense_rss", "RSS"}},
                 ComputeImageSamples)
    /\ [][NextRun]_vars

\* C22: a ComputeImage object is made and called with any type; a type
\* outside rss, complex, complex_mod, sense, sense_mod is processed as sense
\* is: without a sensitivity map the call raises ItemNotFoundException and
\* writes nothing, with one it stores the coil sum of the conjugate map
\* times the per-coil image, complex, without taking the magnitude.
C22_UnknownTypeIsSense ==
    \A k \in 1..Len(outputs) :
        LET st == calls[k]
            before == inputs[k]
            after == outputs[k].sample
        IN  (st.cls = "ComputeImage" /\ st.type_reconstruction \notin ReconstructionType
             /\ Has(before, st.kspace_key)) =>
              /\ outputs[k] = Apply([st EXCEPT !.type_reconstruction = "sense"], before, NoDraw)
              /\ outputs[k].err.exc \in {"", "ItemNotFoundException"}
              /\ ~Has(before, "sensitivity_map") =>
                    /\ ~outputs[k].ok
                    /\ outputs[k].err = Error("ItemNotFoundException", "sensitivity map")
                    /\ after = before /\ sample = before /\ pc = "raised"
              /\ Has(before, "sensitivity_map") =>
                    /\ outputs[k].ok
                    /\ after[st.target_key] =
                          SumCoil(complex_multiplication(conjugate(before["sensitivity_map"]),
                                                         backward_operator(before[st.kspace_key])))
                    /\ after[st.target_key].shape = <<1, 2, 2>>
                    /\ sample = after

C22_Witness ==
    /\ pc = "returned"
    /\ calls[1].cls = "ComputeImage"
    /\ calls[1].type_reconstruction = "sense_rss"
    /\ Has(sample0, "sensitivity_map") /\ Has(sample0, "kspace")
    /\ sample0["sensitivity_map"].data = <<0, 1, 2, 0>>
    /\ sample["target"] # modulus(sample["target"])
    /\ \E n \in 1..4 : sample["target"].data[n] # 0

=============================================================================
